---- MODULE Spec2Model ----
(***************************************************************************)
(* A model of the iced-themer resolution pipeline: the color parser, the   *)
(* expression evaluator, the variable resolver, the document substitution  *)
(* walker and the field-set merge of the style cascade.                    *)
(*                                                                         *)
(* Strings are sequences of one-character strings, so that prefix tests,   *)
(* splitting and trimming are computed as the code computes them.          *)
(***************************************************************************)
EXTENDS Integers, Sequences, FiniteSets, TLC

(***************************************************************************)
(* Characters and string helpers (std::str)                                *)
(***************************************************************************)

LowerSeq == <<"a","b","c","d","e","f","g","h","i","j","k","l","m",
              "n","o","p","q","r","s","t","u","v","w","x","y","z">>

UpperSeq == <<"A","B","C","D","E","F","G","H","I","J","K","L","M",
              "N","O","P","Q","R","S","T","U","V","W","X","Y","Z">>

DigitSeq == <<"0","1","2","3","4","5","6","7","8","9">>

SeqRange(q) == { q[i] : i \in 1..Len(q) }

IndexIn(q, c) == CHOOSE i \in 1..Len(q) : q[i] = c

\* char::is_ascii_alphabetic
IsAsciiAlphabetic(c) == c \in SeqRange(LowerSeq) \cup SeqRange(UpperSeq)

\* char::to_ascii_lowercase
CharToAsciiLowercase(c) ==
    IF c \in SeqRange(UpperSeq) THEN LowerSeq[IndexIn(UpperSeq, c)] ELSE c

\* str::to_ascii_lowercase
ToAsciiLowercase(s) == [ i \in 1..Len(s) |-> CharToAsciiLowercase(s[i]) ]

\* char::is_whitespace, for the characters the model uses
IsWhitespace(c) == c \in {" ", "\t", "\n"}

\* str::starts_with(char)
StartsWith(s, c) == Len(s) > 0 /\ s[1] = c

\* str::ends_with(&str)
EndsWith(s, suf) ==
    /\ Len(s) >= Len(suf)
    /\ SubSeq(s, Len(s) - Len(suf) + 1, Len(s)) = suf

\* str::contains(char)
Contains(s, c) == \E i \in 1..Len(s) : s[i] = c

\* str::strip_prefix(char): Some(rest) or None
StripPrefix(s, c) ==
    IF StartsWith(s, c) THEN [some |-> TRUE, rest |-> Tail(s)]
    ELSE [some |-> FALSE, rest |-> <<>>]

\* str::strip_suffix(&str): Some(rest) or None
StripSuffix(s, suf) ==
    IF EndsWith(s, suf)
    THEN [some |-> TRUE, rest |-> SubSeq(s, 1, Len(s) - Len(suf))]
    ELSE [some |-> FALSE, rest |-> <<>>]

RECURSIVE TrimStart(_)
TrimStart(s) ==
    IF Len(s) > 0 /\ IsWhitespace(s[1]) THEN TrimStart(Tail(s)) ELSE s

RECURSIVE TrimEnd(_)
TrimEnd(s) ==
    IF Len(s) > 0 /\ IsWhitespace(s[Len(s)])
    THEN TrimEnd(SubSeq(s, 1, Len(s) - 1)) ELSE s

\* str::trim
Trim(s) == TrimEnd(TrimStart(s))

\* position of the first occurrence of c in s, 0 when there is none
FirstIndex(s, c) ==
    IF Contains(s, c)
    THEN CHOOSE i \in 1..Len(s) : s[i] = c /\ \A j \in 1..(i - 1) : s[j] # c
    ELSE 0

\* str::split(char): always at least one piece
RECURSIVE Split(_, _)
SplitAt(s, c, i) ==
    IF i = 0 THEN << s >>
    ELSE << SubSeq(s, 1, i - 1) >> \o Split(SubSeq(s, i + 1, Len(s)), c)

Split(s, c) == SplitAt(s, c, FirstIndex(s, c))

(***************************************************************************)
(* Integer parsing (core::num FromStr / from_str_radix)                    *)
(***************************************************************************)

U8Max == 255

I32Max == 2147483647

HexDigitSeq == <<"0","1","2","3","4","5","6","7","8","9",
                 "a","b","c","d","e","f">>

IsDigit(c, radix) ==
    CharToAsciiLowercase(c) \in { HexDigitSeq[i] : i \in 1..radix }

DigitVal(c) == IndexIn(HexDigitSeq, CharToAsciiLowercase(c)) - 1

RECURSIVE DigitsValue(_, _, _)
DigitsValue(s, radix, acc) ==
    IF Len(s) = 0 THEN acc
    ELSE DigitsValue(Tail(s), radix, acc * radix + DigitVal(s[1]))

IntBad == [ok |-> FALSE, val |-> 0]

\* the overflow test of the accumulating loop
IntInRange(v, lo, hi) ==
    IF v < lo \/ v > hi THEN IntBad ELSE [ok |-> TRUE, val |-> v]

\* the digits after the sign: every one must be a digit of the radix
ParseDigits(digits, neg, radix, lo, hi) ==
    IF \E i \in 1..Len(digits) : ~IsDigit(digits[i], radix) THEN IntBad
    ELSE IntInRange(IF neg THEN 0 - DigitsValue(digits, radix, 0)
                    ELSE DigitsValue(digits, radix, 0), lo, hi)

\* the sign handling of from_str_radix: an empty string or a lone sign is
\* an error, `+` is always accepted, `-` only by signed types
ParseInt(s, radix, signed, lo, hi) ==
    IF Len(s) = 0 THEN IntBad
    ELSE IF s[1] \in {"+", "-"} /\ Len(s) = 1 THEN IntBad
    ELSE ParseDigits(IF s[1] = "+" \/ (s[1] = "-" /\ signed) THEN Tail(s) ELSE s,
                     s[1] = "-" /\ signed, radix, lo, hi)

\* u8::from_str_radix(s, 16)
ParseU8Hex(s) == ParseInt(s, 16, FALSE, 0, U8Max)

\* str::parse::<u8>()
ParseU8(s) == ParseInt(s, 10, FALSE, 0, U8Max)

\* str::parse::<i32>()
ParseI32(s) == ParseInt(s, 10, TRUE, 0 - I32Max - 1, I32Max)

(***************************************************************************)
(* Color parser (color.rs).  A color is its four 8-bit channels.           *)
(***************************************************************************)

Rgba(r, g, b, a) == [r |-> r, g |-> g, b |-> b, a |-> a]

ColorBLACK == Rgba(0, 0, 0, 255)

ColorWHITE == Rgba(255, 255, 255, 255)

ColorTRANSPARENT == Rgba(0, 0, 0, 0)

ColorOk(c) == [ok |-> TRUE, color |-> c, err |-> "none"]

ColorErr(e) == [ok |-> FALSE, color |-> ColorTRANSPARENT, err |-> e]

\* parse_color stopped by a panic: no value is returned
ColorPanic == ColorErr("panic")

\* two characters outside ASCII, named by their code point
CharEAcute == "U+00E9"

CharEuro == "U+20AC"

\* the number of bytes of a character in UTF-8
Utf8Len(c) == IF c = CharEAcute THEN 2 ELSE IF c = CharEuro THEN 3 ELSE 1

\* str::len: the length in bytes
RECURSIVE ByteLen(_)
ByteLen(s) == IF s = <<>> THEN 0 ELSE Utf8Len(Head(s)) + ByteLen(Tail(s))

\* the byte offset at which the i-th character starts; that of Len(s) + 1
\* is the end of the text
ByteOffset(s, i) == ByteLen(SubSeq(s, 1, i - 1))

\* str::is_char_boundary
IsCharBoundary(s, b) == \E i \in 1..(Len(s) + 1) : ByteOffset(s, i) = b

CharAtByte(s, b) == CHOOSE i \in 1..(Len(s) + 1) : ByteOffset(s, i) = b

\* the characters of `&s[from..to]`, both offsets on a boundary
ByteSlice(s, from, to) == SubSeq(s, CharAtByte(s, from), CharAtByte(s, to) - 1)

SliceParsed(r) == [aborts |-> FALSE, ok |-> r.ok, val |-> r.val]

SlicePanic == [aborts |-> TRUE, ok |-> FALSE, val |-> 0]

\* `u8::from_str_radix(&hex[from..to], 16)`: the index panics when an offset
\* is not on a character boundary
HexSlice(hex, from, to) ==
    IF IsCharBoundary(hex, from) /\ IsCharBoundary(hex, to)
    THEN SliceParsed(ParseU8Hex(ByteSlice(hex, from, to)))
    ELSE SlicePanic

\* parse_hex_digit(hex, pos), pos counted from 0
parse_hex_digit(hex, pos) == HexSlice(hex, pos, pos + 1)

\* parse_hex_byte(hex, pos), pos counted from 0
parse_hex_byte(hex, pos) == HexSlice(hex, pos, pos + 2)

NameBlack == <<"b","l","a","c","k">>

NameWhite == <<"w","h","i","t","e">>

NameTransparent == <<"t","r","a","n","s","p","a","r","e","n","t">>

\* the channels of a 3-, 6- or 8-digit token, in the order r, g, b (, a)
HexChannels(hex) ==
    [ i \in 1..(IF ByteLen(hex) = 8 THEN 4 ELSE 3) |->
        IF ByteLen(hex) = 3 THEN parse_hex_digit(hex, i - 1)
        ELSE parse_hex_byte(hex, 2 * (i - 1)) ]

\* the first channel that did not parse: `?` returns its error, and a panic
\* ends the call
FirstBadChannel(ch) ==
    ch[CHOOSE i \in DOMAIN ch : ~ch[i].ok /\ \A j \in 1..(i - 1) : ch[j].ok]

\* the arms of `match hex.len()`, given the parsed channels
HexToColor(hex, ch) ==
    IF \E i \in DOMAIN ch : ~ch[i].ok
    THEN IF FirstBadChannel(ch).aborts THEN ColorPanic
         ELSE ColorErr(IF ByteLen(hex) = 3 THEN "invalidHexDigit" ELSE "invalidHexByte")
    ELSE IF ByteLen(hex) = 3
    THEN \* from_rgb8(r << 4 | r, g << 4 | g, b << 4 | b)
         ColorOk(Rgba(ch[1].val * 16 + ch[1].val, ch[2].val * 16 + ch[2].val,
                      ch[3].val * 16 + ch[3].val, 255))
    ELSE IF ByteLen(hex) = 6
    THEN ColorOk(Rgba(ch[1].val, ch[2].val, ch[3].val, 255))
    ELSE ColorOk(Rgba(ch[1].val, ch[2].val, ch[3].val, ch[4].val))

\* the part of parse_color after the named colors
ParseHexToken(pre) ==
    IF ~pre.some THEN ColorErr("missingHash")
    ELSE IF ByteLen(pre.rest) \notin {3, 6, 8} THEN ColorErr("wrongLength")
    ELSE HexToColor(pre.rest, HexChannels(pre.rest))

\* the named colors, matched on the lowercased token
NamedColor(low) ==
    IF low = NameBlack THEN ColorOk(ColorBLACK)
    ELSE IF low = NameWhite THEN ColorOk(ColorWHITE)
    ELSE IF low = NameTransparent THEN ColorOk(ColorTRANSPARENT)
    ELSE ColorErr("notNamed")

parse_color(s) ==
    IF ToAsciiLowercase(s) \in {NameBlack, NameWhite, NameTransparent}
    THEN NamedColor(ToAsciiLowercase(s))
    ELSE ParseHexToken(StripPrefix(s, "#"))

(***************************************************************************)
(* Display for HexColor (color.rs).  A channel of a Color is the f32       *)
(* `v as f32 / 255.0` of the 8-bit value v it was made from; an f32 is its *)
(* 24-bit significand m and its exponent e, standing for m * 2^e.          *)
(***************************************************************************)

F32(m, e) == [m |-> m, e |-> e]

F32Zero == F32(0, 0)

F32One == F32(2^23, 0 - 23)

\* the number of doublings that bring v, 0 < v < 255, into 128..254
RECURSIVE Doublings(_)
Doublings(v) == IF v >= 128 THEN 0 ELSE 1 + Doublings(2 * v)

\* round to nearest, ties to even: the quotient q of a division by d that
\* left the remainder twice_rem / 2
RoundEven(q, twice_rem, d) ==
    IF twice_rem > d \/ (twice_rem = d /\ q % 2 = 1) THEN q + 1 ELSE q

\* w / 255.0 for 128 <= w < 255, with the significand scaled by 2^24:
\* 2^24 = 255 * ((2^24 - 1) \div 255) + 1, so w * 2^24 divided by 255 has the
\* quotient w * ((2^24 - 1) \div 255) and the remainder w
DivBy255(w, sh) ==
    F32(RoundEven(w * ((2^24 - 1) \div 255), 2 * w, 255), 0 - 24 - sh)

\* `v as f32 / 255.0` (parse_color's alpha, and from_rgb8 / from_rgba8)
U8ToUnit(v) ==
    IF v = 0 THEN F32Zero
    ELSE IF v = U8Max THEN F32One
    ELSE DivBy255(v * 2^Doublings(v), Doublings(v))

\* the f32 nearest to q * 2^drop + r, cut to the integer part (`as u8`
\* truncates and saturates)
CutToU8(q, r, drop, e) ==
    IF RoundEven(q, 2 * r, 2^drop) \div 2^(0 - e - drop) > U8Max THEN U8Max
    ELSE RoundEven(q, 2 * r, 2^drop) \div 2^(0 - e - drop)

\* the product m * 255 as hi * 2^8 + lo; it has 32 bits where hi >= 2^23
\* and 31 bits otherwise, of which an f32 keeps the upper 24
MulCut(hi, lo, e) ==
    IF hi >= 2^23 THEN CutToU8(hi, lo, 8, e)
    ELSE CutToU8(2 * hi + (lo \div 2^7), lo % 2^7, 7, e)

\* `(x * 255.0) as u8`
UnitToU8(x) ==
    IF x.m = 0 THEN 0
    ELSE MulCut((x.m \div 2^8) * 255 + ((x.m % 2^8) * 255) \div 2^8,
                ((x.m % 2^8) * 255) % 2^8, x.e)

\* `(a - 1.0).abs() < f32::EPSILON`, for 0 <= a <= 1; EPSILON is 2^-23
NearOne(a) ==
    /\ a.m # 0
    /\ a.e >= 0 - 24
    /\ 2^24 - a.m * 2^(a.e + 24) < 2

HexUpperSeq == <<"0","1","2","3","4","5","6","7","8","9","A","B","C","D","E","F">>

\* `{:02X}`
UpperHex2(v) == << HexUpperSeq[(v \div 16) + 1], HexUpperSeq[(v % 16) + 1] >>

ShowChannel(v) == UpperHex2(UnitToU8(U8ToUnit(v)))

\* the alpha channel is always written
display_with_alpha(c) ==
    <<"#">> \o ShowChannel(c.r) \o ShowChannel(c.g) \o ShowChannel(c.b)
      \o ShowChannel(c.a)

\* Display::fmt for HexColor
display(c) ==
    IF NearOne(U8ToUnit(c.a))
    THEN <<"#">> \o ShowChannel(c.r) \o ShowChannel(c.g) \o ShowChannel(c.b)
    ELSE <<"#">> \o ShowChannel(c.r) \o ShowChannel(c.g) \o ShowChannel(c.b)
           \o ShowChannel(c.a)

(***************************************************************************)
(* Expression evaluator (expr.rs)                                          *)
(***************************************************************************)

FnDarken == <<"d","a","r","k","e","n">>

FnLighten == <<"l","i","g","h","t","e","n">>

FnSaturate == <<"s","a","t","u","r","a","t","e">>

FnDesaturate == <<"d","e","s","a","t","u","r","a","t","e">>

FnTint == <<"t","i","n","t">>

FnShade == <<"s","h","a","d","e">>

FnGreyscale == <<"g","r","e","y","s","c","a","l","e">>

FnGrayscale == <<"g","r","a","y","s","c","a","l","e">>

FnSpin == <<"s","p","i","n">>

FnMix == <<"m","i","x">>

\* the match arms of apply that take (color, percentage)
PercentFns == {FnDarken, FnLighten, FnSaturate, FnDesaturate, FnTint, FnShade}

PercentMax == 100

EvalOk(hex) ==
    [ok |-> TRUE, val |-> hex, err |-> "none", name |-> <<>>,
     expected |-> 0, got |-> 0]

EvalErr(kind, name, expected, got) ==
    [ok |-> FALSE, val |-> <<>>, err |-> kind, name |-> name,
     expected |-> expected, got |-> got]

CallErr(kind) == [ok |-> FALSE, err |-> kind, name |-> <<>>, args |-> <<>>]

\* the text after `(` must end with `)`
ParseCallArgs(name, args) ==
    IF ~args.some THEN CallErr("missingClose")
    ELSE [ok |-> TRUE, err |-> "none", name |-> Trim(name), args |-> args.rest]

ParseCallAt(s, i) ==
    IF i = 0 THEN CallErr("expectedCall")
    ELSE ParseCallArgs(SubSeq(s, 1, i - 1),
                       StripSuffix(SubSeq(s, i + 1, Len(s)), <<")">>))

\* parse_call: split at the first `(`, require a trailing `)`
parse_call(s) == ParseCallAt(s, FirstIndex(s, "("))

\* surplus arguments are let through
expect_args_at_least(args, n) == Len(args) >= n

\* expect_args: the arity test
expect_args(args, n) == Len(args) = n

\* the literal of a color argument must parse as a color
ColorArg(literal) ==
    IF parse_color(literal).ok THEN EvalOk(literal)
    ELSE EvalErr("invalidColor", literal, 0, 0)

\* a table value that is a reference is looked up again
ResolveRefFollowing(s, ref, table) ==
    IF ref.some /\ ref.rest \notin DOMAIN table
    THEN EvalErr("undefinedVariable", ref.rest, 0, 0)
    ELSE IF ref.some /\ StripPrefix(table[ref.rest], "$").some
                    /\ StripPrefix(table[ref.rest], "$").rest \in DOMAIN table
    THEN ColorArg(table[StripPrefix(table[ref.rest], "$").rest])
    ELSE ColorArg(IF ref.some THEN table[ref.rest] ELSE s)

ResolveRef(s, ref, table) ==
    IF ref.some /\ ref.rest \notin DOMAIN table
    THEN EvalErr("undefinedVariable", ref.rest, 0, 0)
    ELSE ColorArg(IF ref.some THEN table[ref.rest] ELSE s)

\* resolve_color: one lookup for `$name`, then parse_color of the literal
resolve_color(s, table) == ResolveRef(s, StripPrefix(s, "$"), table)

\* a value above 100 is let through
PercentValueUnchecked(digits, n) ==
    IF ~n.ok THEN EvalErr("invalidPercent", digits, 0, 0)
    ELSE EvalOk(digits)

PercentValue(digits, n) ==
    IF ~n.ok THEN EvalErr("invalidPercent", digits, 0, 0)
    ELSE IF n.val > PercentMax THEN EvalErr("percentRange", digits, 0, 0)
    ELSE EvalOk(digits)

PercentBody(s, body) ==
    IF ~body.some THEN EvalErr("expectedPercent", s, 0, 0)
    ELSE PercentValue(Trim(body.rest), ParseU8(Trim(body.rest)))

\* parse_percent: `<u8>%`, at most 100
parse_percent(s) == PercentBody(s, StripSuffix(s, <<"%">>))

AngleBody(s, body) ==
    IF ~body.some THEN EvalErr("expectedAngle", s, 0, 0)
    ELSE IF ~ParseI32(Trim(body.rest)).ok
    THEN EvalErr("invalidAngle", Trim(body.rest), 0, 0)
    ELSE EvalOk(s)

\* parse_angle: `<i32>deg`
parse_angle(s) == AngleBody(s, StripSuffix(s, <<"d","e","g">>))

\* the match arms of apply: the arguments each function takes, in the
\* order apply reads them
Signature(fn_name) ==
    IF fn_name \in PercentFns THEN <<"color", "percent">>
    ELSE IF fn_name \in {FnGreyscale, FnGrayscale} THEN <<"color">>
    ELSE IF fn_name = FnSpin THEN <<"color", "angle">>
    ELSE IF fn_name = FnMix THEN <<"color", "color", "percent">>
    ELSE <<>>

KnownFns == PercentFns \cup {FnGreyscale, FnGrayscale, FnSpin, FnMix}

\* one argument read by a match arm
ReadArg(kind, arg, table) ==
    IF kind = "color" THEN resolve_color(arg, table)
    ELSE IF kind = "percent" THEN parse_percent(arg)
    ELSE parse_angle(arg)

\* the first argument that failed (`?`), or Ok(hex)
FirstFailure(rs, hex) ==
    IF \A i \in DOMAIN rs : rs[i].ok THEN EvalOk(hex)
    ELSE rs[CHOOSE i \in DOMAIN rs : ~rs[i].ok /\ \A j \in 1..(i - 1) : rs[j].ok]

ApplySig(fn_name, sig, args, table, hex) ==
    IF ~expect_args(args, Len(sig))
    THEN EvalErr("arity", fn_name, Len(sig), Len(args))
    ELSE FirstFailure([ i \in 1..Len(sig) |-> ReadArg(sig[i], args[i], table) ], hex)

\* apply: dispatch on the function name, the arity test first, then the
\* arguments left to right; `hex` is what farver's to_hex returns for the
\* transformed color
apply(fn_name, args, table, hex) ==
    IF fn_name \notin KnownFns THEN EvalErr("unknownFunction", fn_name, 0, 0)
    ELSE ApplySig(fn_name, Signature(fn_name), args, table, hex)

TrimAll(parts) == [ i \in 1..Len(parts) |-> Trim(parts[i]) ]

EvalCall(call, table, hex) ==
    IF ~call.ok THEN EvalErr(call.err, <<>>, 0, 0)
    ELSE apply(call.name, TrimAll(Split(call.args, ",")), table, hex)

\* expr::evaluate
expr_evaluate(s, table, hex) == EvalCall(parse_call(Trim(s)), table, hex)

\* the hex tokens farver's to_hex may return (external crate): `#` and six
\* hex digits
FarverHex == { <<"#","0","0","0","0","0","0">>, <<"#","f","f","8","0","0","0">> }

(***************************************************************************)
(* Document tree (toml::Value).  Every node has the same record shape; a   *)
(* table keeps its keys and its values as two sequences of equal length,   *)
(* in the table's iteration order.                                         *)
(***************************************************************************)

VStr(s) == [t |-> "str", s |-> s, n |-> 0, keys |-> <<>>, kids |-> <<>>]

VNum(n) == [t |-> "num", s |-> <<>>, n |-> n, keys |-> <<>>, kids |-> <<>>]

VBool(b) == [t |-> "bool", s |-> <<>>, n |-> IF b THEN 1 ELSE 0,
             keys |-> <<>>, kids |-> <<>>]

VArr(items) == [t |-> "arr", s |-> <<>>, n |-> 0, keys |-> <<>>, kids |-> items]

VTbl(keys, vals) == [t |-> "tbl", s |-> <<>>, n |-> 0, keys |-> keys, kids |-> vals]

KeyVariables == <<"v","a","r","i","a","b","l","e","s">>

\* Map::remove / Map::get on a table node
HasKey(tbl, key) == \E i \in 1..Len(tbl.keys) : tbl.keys[i] = key

GetKey(tbl, key) == tbl.kids[CHOOSE i \in 1..Len(tbl.keys) : tbl.keys[i] = key]

RECURSIVE DropAt(_, _)
DropAt(q, i) ==
    IF i = 1 THEN Tail(q) ELSE << Head(q) >> \o DropAt(Tail(q), i - 1)

RemoveKey(tbl, key) ==
    IF ~HasKey(tbl, key) THEN tbl
    ELSE LET i == CHOOSE j \in 1..Len(tbl.keys) : tbl.keys[j] = key
         IN VTbl(DropAt(tbl.keys, i), DropAt(tbl.kids, i))

(***************************************************************************)
(* Variable resolution (variables.rs)                                      *)
(***************************************************************************)

EmptyVars == [ k \in {} |-> <<>> ]

Res(kind, name, from, names, detail) ==
    [kind |-> kind, name |-> name, from |-> from, names |-> names,
     detail |-> detail]

ResNone == Res("none", <<>>, <<>>, {}, "none")

ResOk == Res("ok", <<>>, <<>>, {}, "none")

\* the root had the table been read with `get` instead of `remove`
ExtractRootKeep(r) == r

\* the root after `table.remove("variables")`
ExtractRoot(r) == IF r.t = "tbl" THEN RemoveKey(r, KeyVariables) ELSE r

\* extract: the key -> value pairs of `[variables]`, or an error
extract(r) ==
    IF r.t # "tbl" THEN [res |-> ResOk, table |-> EmptyVars]
    ELSE IF ~HasKey(r, KeyVariables) THEN [res |-> ResOk, table |-> EmptyVars]
    ELSE
      LET vt == GetKey(r, KeyVariables) IN
      IF vt.t # "tbl"
      THEN [res |-> Res("notTable", <<>>, <<>>, {}, "none"), table |-> EmptyVars]
      ELSE IF \E i \in 1..Len(vt.kids) : vt.kids[i].t # "str"
      THEN LET i == CHOOSE j \in 1..Len(vt.kids) :
                      /\ vt.kids[j].t # "str"
                      /\ \A m \in 1..(j - 1) : vt.kids[m].t = "str"
           IN [res |-> Res("notString", vt.keys[i], <<>>, {}, "none"),
               table |-> EmptyVars]
      ELSE [res |-> ResOk,
            table |-> [ k \in SeqRange(vt.keys) |-> GetKey(vt, k).s ]]

\* resolve without its early return
VarsIsEmptyNever(table) == FALSE

\* `vars.is_empty()` in resolve
VarsIsEmpty(table) == DOMAIN table = {}

\* the exclusive range `0..vars.len()`
PassRangeExclusive(table) == 0..(Cardinality(DOMAIN table) - 1)

\* the range of the pass loop, `0..=vars.len()`
PassRange(table) == 0..Cardinality(DOMAIN table)

\* a pass that reads the table it is writing
PassSourceWorking(snap, working) == working

\* the table a pass reads: `let snapshot = vars.clone()` at its head, and
\* `snapshot.get(name)` for every value
PassSource(snap, working) == snap

\* expressions that read the table they are written to
ExprSourceWorking(snap, working) == working

\* the table the expressions of phase 2 read: `let snapshot = vars.clone()`
\* before the first of them is evaluated
ExprSource(snap, working) == snap

\* `changed = true` after a write
MarkChangedNever(changed, wrote) == changed

MarkChanged(changed, wrote) == changed \/ wrote

Outcome(kind, value, name) == [kind |-> kind, value |-> value, name |-> name]

\* the match on `snapshot.get(ref_name)` with a missing name left alone
VisitOutcomeLenient(val, ref, snap) ==
    IF ~ref.some THEN Outcome("skip", val, <<>>)
    ELSE IF ref.rest \notin DOMAIN snap THEN Outcome("same", val, <<>>)
    ELSE IF snap[ref.rest] # val THEN Outcome("write", snap[ref.rest], <<>>)
    ELSE Outcome("same", val, <<>>)

\* the match on `snapshot.get(ref_name)` following a second reference
VisitOutcomeTwoHops(val, ref, snap) ==
    IF ~ref.some THEN Outcome("skip", val, <<>>)
    ELSE IF ref.rest \notin DOMAIN snap THEN Outcome("undefined", val, ref.rest)
    ELSE IF snap[ref.rest] = val THEN Outcome("same", val, <<>>)
    ELSE IF StripPrefix(snap[ref.rest], "$").some
              /\ StripPrefix(snap[ref.rest], "$").rest \in DOMAIN snap
    THEN Outcome("write", snap[StripPrefix(snap[ref.rest], "$").rest], <<>>)
    ELSE Outcome("write", snap[ref.rest], <<>>)

\* one value of a pass: `if let Some(ref_name) = val.strip_prefix('$')` and
\* the match on `snapshot.get(ref_name)`
VisitOutcome(val, ref, snap) ==
    IF ~ref.some THEN Outcome("skip", val, <<>>)
    ELSE IF ref.rest \notin DOMAIN snap THEN Outcome("undefined", val, ref.rest)
    ELSE IF snap[ref.rest] # val THEN Outcome("write", snap[ref.rest], <<>>)
    ELSE Outcome("same", val, <<>>)

\* the names collected after the loop: values that still start with `$`
CyclicNamesOne(table) ==
    LET all == { k \in DOMAIN table : StartsWith(table[k], "$") }
    IN IF all = {} THEN {} ELSE { CHOOSE k \in all : TRUE }

\* only the values that refer to their own variable
CyclicNamesSelf(table) == { k \in DOMAIN table : table[k] = <<"$">> \o k }

CyclicNames(table) == { k \in DOMAIN table : StartsWith(table[k], "$") }

\* is_expr: contains `(` and starts with an ASCII letter
is_expr(s) == Contains(s, "(") /\ Len(s) > 0 /\ IsAsciiAlphabetic(s[1])

(***************************************************************************)
(* Document substitution walker (variables.rs, substitute)                 *)
(***************************************************************************)

SubOk(v) == [ok |-> TRUE, v |-> v, res |-> ResOk]

SubErr(v, res) == [ok |-> FALSE, v |-> v, res |-> res]

\* `*s = evaluate(s, vars).map_err(...)?`
SubstExpr(node, r) ==
    IF r.ok THEN SubOk(VStr(r.val))
    ELSE SubErr(node, Res("exprBody", r.name, node.s, {}, r.err))

SubstRef(node, ref, table, hex) ==
    IF ref.some THEN
      IF ref.rest \in DOMAIN table THEN SubOk(VStr(table[ref.rest]))
      ELSE SubErr(node, Res("undefinedBody", ref.rest, <<>>, {}, "none"))
    ELSE IF is_expr(node.s) THEN SubstExpr(node, expr_evaluate(node.s, table, hex))
    ELSE SubOk(node)

\* the Value::String arm, reading the name with trim_start_matches
SubstStringLoose(node, table, hex) ==
    LET name == IF StartsWith(node.s, "$") THEN Tail(node.s) ELSE node.s IN
    IF name \in DOMAIN table THEN SubOk(VStr(table[name]))
    ELSE IF StartsWith(node.s, "$")
    THEN SubErr(node, Res("undefinedBody", name, <<>>, {}, "none"))
    ELSE SubOk(node)

\* the Value::String arm of substitute
SubstString(node, table, hex) ==
    SubstRef(node, StripPrefix(node.s, "$"), table, hex)

SubstUpTo(node, rs, f) ==
    SubErr([node EXCEPT !.kids =
              [ i \in DOMAIN rs |-> IF i <= f THEN rs[i].v ELSE node.kids[i] ]],
           rs[f].res)

\* the Array and Table arms, given each child's own result: the children
\* are visited in order up to the first error (`?`); the children up to and
\* including the failing one are already (partly) replaced, the later ones
\* untouched
SubstChildren(node, rs) ==
    IF \A i \in DOMAIN rs : rs[i].ok
    THEN SubOk([node EXCEPT !.kids = [ i \in DOMAIN rs |-> rs[i].v ]])
    ELSE SubstUpTo(node, rs,
                   CHOOSE i \in DOMAIN rs : ~rs[i].ok /\ \A j \in 1..(i - 1) : rs[j].ok)

RECURSIVE substitute(_, _, _)
substitute(node, table, hex) ==
    IF node.t = "str" THEN SubstString(node, table, hex)
    ELSE IF node.t \in {"arr", "tbl"} THEN
      SubstChildren(node,
                    [ i \in 1..Len(node.kids) |-> substitute(node.kids[i], table, hex) ])
    ELSE SubOk(node)

(***************************************************************************)
(* Inputs: variable tables and documents                                   *)
(***************************************************************************)

\* the number of variable names of a table handed to evaluate
MaxVars == 3

\* the number of variable names of a document's `[variables]` table
MaxDocVars == 2

NameSeq == <<"a","b","c","d","e","g","h">>

VarNames(n) == { << NameSeq[i] >> : i \in 1..n }

Ref(name) == <<"$">> \o name

LitColor == <<"#","F","8","0">>

\* a literal that holds a `$` after its first character
DollarLit == <<"x","$">>

\* tint($a,5%)
ExprTintA == <<"t","i","n","t","(","$","a",",","5","%",")">>

\* tint(#F80, 5%)
ExprTintLit == <<"t","i","n","t","(","#","F","8","0",","," ","5","%",")">>

\* a string that is a variable's name without the `$`
NameA == <<"a">>

\* three variables referring to each other in a ring
ThreeCycle ==
    [ k \in { <<"a">>, <<"b">>, <<"c">> } |->
        IF k = <<"a">> THEN Ref(<<"b">>)
        ELSE IF k = <<"b">> THEN Ref(<<"c">>) ELSE Ref(<<"a">>) ]

\* a name no table defines
NameUndefined == <<"z">>

VarValues(n) == { Ref(k) : k \in VarNames(n) } \cup {LitColor, DollarLit, ExprTintA}

\* every table over a subset of the first n names
Tables(n) ==
    UNION { [ K -> VarValues(n) ] : K \in SUBSET VarNames(n) }

ExprTintB == <<"t","i","n","t","(","$","b",",","5","%",")">>

\* tables whose expressions take other variables as arguments
ChainTables ==
    UNION { [ K -> {LitColor, ExprTintA, ExprTintB, Ref(<<"c">>)} ] :
              K \in SUBSET VarNames(MaxVars) \ {{}} }

EvalTables == { tb \in Tables(MaxVars) : DOMAIN tb # {} } \cup ChainTables

\* a table value from a function, its keys in the order of NameSeq
RECURSIVE KeysInOrder(_, _)
KeysInOrder(K, i) ==
    IF i > Len(NameSeq) THEN <<>>
    ELSE (IF << NameSeq[i] >> \in K THEN << << NameSeq[i] >> >> ELSE <<>>)
         \o KeysInOrder(K, i + 1)

TableNode(tb) ==
    LET ks == KeysInOrder(DOMAIN tb, 1)
    IN VTbl(ks, [ i \in 1..Len(ks) |-> VStr(tb[ks[i]]) ])

KeyButton == <<"b","u","t","t","o","n">>

KeyBackground == <<"b","a","c","k","g","r","o","u","n","d">>

KeyFont == <<"f","o","n","t">>

KeyFamily == <<"f","a","m","i","l","y">>

KeyBold == <<"b","o","l","d">>

KeySize == <<"s","i","z","e">>

KeyName == <<"n","a","m","e">>

KeyProgressBar == <<"p","r","o","g","r","e","s","s","-","b","a","r">>

KeyAngle == <<"a","n","g","l","e">>

KeyStops == <<"s","t","o","p","s">>

KeyColor == <<"c","o","l","o","r">>

KeyOffset == <<"o","f","f","s","e","t">>

StrArial == <<"A","r","i","a","l">>

\* Ocean (d): a name with a parenthesis
StrParen == <<"O","c","e","a","n"," ","(","d",")">>

Entry(key, val) == [keys |-> << key >>, kids |-> << val >>]

NoEntry == [keys |-> <<>>, kids |-> <<>>]

ButtonOpts ==
    {NoEntry} \cup
    { Entry(KeyButton, VTbl(<< KeyBackground >>, << VStr(s) >>)) :
        s \in {Ref(<<"a">>), Ref(NameUndefined), ExprTintLit, ExprTintA, LitColor,
                NameA} }

FontOpts ==
    { NoEntry,
      Entry(KeyFont, VTbl(<< KeyBold, KeyFamily, KeySize >>,
                          << VBool(TRUE), VStr(StrArial), VNum(12) >>)),
      Entry(KeyName, VStr(StrParen)) }

Stop(color, offset) == VTbl(<< KeyColor, KeyOffset >>, << VStr(color), VNum(offset) >>)

GradientOpts ==
    { NoEntry,
      Entry(KeyProgressBar,
            VTbl(<< KeyBackground >>,
                 << VTbl(<< KeyAngle, KeyStops >>,
                         << VNum(0),
                            VArr(<< Stop(Ref(<<"a">>), 0), Stop(Ref(<<"b">>), 1) >>) >>) >>)) }

VariablesOpts ==
    { NoEntry,
      Entry(KeyVariables, VStr(LitColor)),
      Entry(KeyVariables, VTbl(<< <<"a">>, <<"b">> >>, << VStr(LitColor), VNum(5) >>)),
      Entry(KeyVariables, TableNode(ThreeCycle)) }
    \cup { Entry(KeyVariables, TableNode(tb)) : tb \in Tables(MaxDocVars) }

\* the documents: a root table, its keys in sorted order
Documents ==
    { VTbl(b.keys \o f.keys \o g.keys \o v.keys, b.kids \o f.kids \o g.kids \o v.kids) :
        b \in ButtonOpts, f \in FontOpts, g \in GradientOpts, v \in VariablesOpts }

(***************************************************************************)
(* Field-set layers and merge (style/mod.rs impl_merge!, and the field     *)
(* lists of the eight kinds)                                               *)
(***************************************************************************)

\* the number of fields one layer sets
MaxSet == 1

\* Option::None
None == "None"

Kinds == {"button", "checkbox", "container", "progress_bar", "radio", "slider",
          "text_input", "toggler"}

ButtonFields ==
    {"background", "text_color", "border_width", "border_color", "border_radius",
     "shadow_color", "shadow_offset_x", "shadow_offset_y", "shadow_blur_radius"}

CheckboxFields ==
    {"background", "icon_color", "border_width", "border_color", "border_radius",
     "text_color"}

ContainerFields ==
    {"background", "text_color", "border_width", "border_color", "border_radius",
     "shadow_color", "shadow_offset_x", "shadow_offset_y", "shadow_blur_radius"}

ProgressBarFields ==
    {"background", "bar", "border_width", "border_color", "border_radius"}

RadioFields ==
    {"background", "dot_color", "border_width", "border_color", "text_color"}

SliderFields ==
    {"rail_color_1", "rail_color_2", "rail_width", "rail_border_radius",
     "handle_shape", "handle_radius", "handle_width", "handle_border_radius",
     "handle_background", "handle_border_width", "handle_border_color"}

TextInputFields ==
    {"background", "border_width", "border_color", "border_radius", "icon_color",
     "placeholder_color", "value_color", "selection_color"}

TogglerFields ==
    {"background", "foreground", "background_border_width",
     "background_border_color", "foreground_border_width",
     "foreground_border_color", "border_radius", "text_color"}

Fields(kind) ==
    CASE kind = "button" -> ButtonFields
      [] kind = "checkbox" -> CheckboxFields
      [] kind = "container" -> ContainerFields
      [] kind = "progress_bar" -> ProgressBarFields
      [] kind = "radio" -> RadioFields
      [] kind = "slider" -> SliderFields
      [] kind = "text_input" -> TextInputFields
      [] kind = "toggler" -> TogglerFields

\* Option::or
OptionOr(a, b) == IF a # None THEN a ELSE b

\* merge with each field read as `self.or(over)`
merge_self_first(self, over) ==
    [ f \in DOMAIN self |-> OptionOr(self[f], over[f]) ]

\* merge with each field read as `over.xor(self)`
merge_xor(self, over) ==
    [ f \in DOMAIN self |->
        IF over[f] # None /\ self[f] # None THEN None ELSE OptionOr(over[f], self[f]) ]

\* impl_merge!: `$field: over.$field.or(self.$field)` for every field
merge(self, over) ==
    [ f \in DOMAIN self |-> OptionOr(over[f], self[f]) ]

\* the layers of one kind that set at most MaxSet fields, each to `val`
Layers(kind, val) ==
    { [ f \in Fields(kind) |-> IF f \in S THEN val ELSE None ] :
        S \in { T \in SUBSET Fields(kind) : Cardinality(T) <= MaxSet } }

SetFields(layer) == { f \in DOMAIN layer : layer[f] # None }

NoLayer == [ f \in {} |-> None ]

(***************************************************************************)
(* Sections and their resolution into appearances (style/*.rs)             *)
(***************************************************************************)

StatefulKinds == {"checkbox", "toggler", "radio"}

StatusKinds == {"button", "slider", "text_input"}

PlainKinds == {"container", "progress_bar"}

\* the state sub-table of a stateful kind
StateOf(kind) ==
    CASE kind = "checkbox" -> "checked"
      [] kind = "toggler" -> "toggled"
      [] kind = "radio" -> "selected"

\* the combined sub-table of a stateful kind for a status
CombinedOf(kind, status) ==
    CASE kind = "checkbox" /\ status = "hovered" -> "hovered_checked"
      [] kind = "checkbox" /\ status = "disabled" -> "disabled_checked"
      [] kind = "toggler" /\ status = "hovered" -> "hovered_toggled"
      [] kind = "toggler" /\ status = "disabled" -> "disabled_toggled"
      [] kind = "radio" /\ status = "hovered" -> "hovered_selected"
      [] kind = "radio" /\ status = "disabled" -> "disabled_selected"

\* the statuses of a kind that have a sub-table of their own
Statuses(kind) ==
    CASE kind \in StatefulKinds -> {"hovered", "disabled"}
      [] kind = "button" -> {"hovered", "pressed", "disabled"}
      [] kind = "slider" -> {"hovered", "dragged"}
      [] kind = "text_input" -> {"focused", "disabled"}
      [] kind \in PlainKinds -> {}

\* the optional sub-tables of a section
SubTables(kind) ==
    IF kind \in StatefulKinds
    THEN Statuses(kind) \cup {StateOf(kind)}
           \cup { CombinedOf(kind, st) : st \in Statuses(kind) }
    ELSE Statuses(kind)

\* the field of a stateful style for a status and a state
VariantOf(kind, status, on) ==
    CASE kind = "checkbox" -> status \o (IF on THEN "_checked" ELSE "_unchecked")
      [] kind = "toggler" -> status \o (IF on THEN "_toggled" ELSE "_untoggled")
      [] kind = "radio" -> status \o (IF on THEN "_selected" ELSE "_unselected")

ColorTransparentName == "Color::TRANSPARENT"

ColorBlackName == "Color::BLACK"

\* Color::from_rgba8(0x80, 0x80, 0x80, 1.0)
PlaceholderGray == "rgba8(0x80, 0x80, 0x80, 1.0)"

\* Color::from_rgba8(0x33, 0x99, 0xFF, 0.3)
SelectionBlue == "rgba8(0x33, 0x99, 0xFF, 0.3)"

\* Option::unwrap_or
UnwrapOr(a, d) == IF a # None THEN a ELSE d

\* `as u16` on a handle width
AsU16(v) == "(" \o v \o " as u16)"

\* a field that the chosen handle shape does not have
NotInShape == "-"

\* resolve_border with the raw options passed through
resolve_border_raw(width, color, radius) ==
    [border_color |-> color, border_width |-> width, border_radius |-> radius]

\* resolve_border with the radio's fallbacks
resolve_border_visible(width, color, radius) ==
    [border_color  |-> UnwrapOr(color, ColorBlackName),
     border_width  |-> UnwrapOr(width, "1.0"),
     border_radius |-> UnwrapOr(radius, "0.0")]

\* resolve_border
resolve_border(width, color, radius) ==
    [border_color  |-> UnwrapOr(color, ColorTransparentName),
     border_width  |-> UnwrapOr(width, "0.0"),
     border_radius |-> UnwrapOr(radius, "0.0")]

\* resolve_shadow
resolve_shadow(color, offset_x, offset_y, blur_radius) ==
    [shadow_color       |-> UnwrapOr(color, ColorTransparentName),
     shadow_offset_x    |-> UnwrapOr(offset_x, "0.0"),
     shadow_offset_y    |-> UnwrapOr(offset_y, "0.0"),
     shadow_blur_radius |-> UnwrapOr(blur_radius, "0.0")]

\* record concatenation: the fields of both
Both(r, q) ==
    [ f \in DOMAIN r \cup DOMAIN q |-> IF f \in DOMAIN r THEN r[f] ELSE q[f] ]

\* button.rs into_appearance
button_into_appearance(f) ==
    Both([background |-> f.background,
          text_color |-> UnwrapOr(f.text_color, ColorBlackName)],
         Both(resolve_border(f.border_width, f.border_color, f.border_radius),
              resolve_shadow(f.shadow_color, f.shadow_offset_x, f.shadow_offset_y,
                             f.shadow_blur_radius)))

\* container.rs into_appearance
container_into_appearance(f) ==
    Both([background |-> f.background,
          text_color |-> f.text_color],
         Both(resolve_border(f.border_width, f.border_color, f.border_radius),
              resolve_shadow(f.shadow_color, f.shadow_offset_x, f.shadow_offset_y,
                             f.shadow_blur_radius)))

\* checkbox.rs into_native
checkbox_into_native(f) ==
    Both([background |-> UnwrapOr(f.background, ColorTransparentName),
          icon_color |-> UnwrapOr(f.icon_color, ColorBlackName),
          text_color |-> f.text_color],
         resolve_border(f.border_width, f.border_color, f.border_radius))

\* progress_bar.rs into_appearance
progress_bar_into_appearance(f) ==
    Both([background |-> UnwrapOr(f.background, ColorTransparentName),
          bar        |-> UnwrapOr(f.bar, ColorBlackName)],
         resolve_border(f.border_width, f.border_color, f.border_radius))

\* radio.rs into_appearance
radio_into_appearance(f) ==
    [background   |-> UnwrapOr(f.background, ColorTransparentName),
     dot_color    |-> UnwrapOr(f.dot_color, ColorBlackName),
     border_width |-> UnwrapOr(f.border_width, "1.0"),
     border_color |-> UnwrapOr(f.border_color, ColorBlackName),
     text_color   |-> f.text_color]

\* the handle shape of slider.rs into_appearance
slider_handle_shape(f) ==
    IF UnwrapOr(f.handle_shape, "circle") = "circle"
    THEN [handle_shape               |-> "Circle",
          handle_shape_radius        |-> UnwrapOr(f.handle_radius, "7.0"),
          handle_shape_width         |-> NotInShape,
          handle_shape_border_radius |-> NotInShape]
    ELSE [handle_shape               |-> "Rectangle",
          handle_shape_radius        |-> NotInShape,
          handle_shape_width         |-> AsU16(UnwrapOr(f.handle_width, "8.0")),
          handle_shape_border_radius |-> UnwrapOr(f.handle_border_radius, "2.0")]

\* slider.rs into_appearance
slider_into_appearance(f) ==
    Both([rail_color_1         |-> UnwrapOr(f.rail_color_1, ColorBlackName),
          rail_color_2         |-> UnwrapOr(f.rail_color_2, ColorTransparentName),
          rail_width           |-> UnwrapOr(f.rail_width, "4.0"),
          rail_border_radius   |-> UnwrapOr(f.rail_border_radius, "0.0"),
          handle_background    |-> UnwrapOr(f.handle_background, ColorBlackName),
          handle_border_color  |-> UnwrapOr(f.handle_border_color, ColorTransparentName),
          handle_border_width  |-> UnwrapOr(f.handle_border_width, "0.0"),
          handle_border_radius |-> "0.0"],
         slider_handle_shape(f))

\* text_input.rs into_native
text_input_into_native(f) ==
    Both([background  |-> UnwrapOr(f.background, ColorTransparentName),
          icon        |-> UnwrapOr(f.icon_color, ColorBlackName),
          placeholder |-> UnwrapOr(f.placeholder_color, PlaceholderGray),
          value       |-> UnwrapOr(f.value_color, ColorBlackName),
          selection   |-> UnwrapOr(f.selection_color, SelectionBlue)],
         resolve_border(f.border_width, f.border_color, f.border_radius))

\* toggler.rs into_appearance
toggler_into_appearance(f) ==
    [background              |-> UnwrapOr(f.background, ColorTransparentName),
     foreground              |-> UnwrapOr(f.foreground, ColorBlackName),
     background_border_width |-> UnwrapOr(f.background_border_width, "0.0"),
     background_border_color |-> UnwrapOr(f.background_border_color, ColorTransparentName),
     foreground_border_width |-> UnwrapOr(f.foreground_border_width, "0.0"),
     foreground_border_color |-> UnwrapOr(f.foreground_border_color, ColorTransparentName),
     border_radius           |-> f.border_radius,
     text_color              |-> f.text_color]

\* the kind's into_appearance / into_native
into_appearance(kind, f) ==
    CASE kind = "button" -> button_into_appearance(f)
      [] kind = "checkbox" -> checkbox_into_native(f)
      [] kind = "container" -> container_into_appearance(f)
      [] kind = "progress_bar" -> progress_bar_into_appearance(f)
      [] kind = "radio" -> radio_into_appearance(f)
      [] kind = "slider" -> slider_into_appearance(f)
      [] kind = "text_input" -> text_input_into_native(f)
      [] kind = "toggler" -> toggler_into_appearance(f)

\* Option<FieldsRaw>: a sub-table that is there, or not
SomeLayer(l) == [present |-> TRUE, layer |-> l]

NoneLayer == [present |-> FALSE, layer |-> NoLayer]

\* `if let Some(s) = over { resolved = resolved.merge(s) }` with an absent
\* sub-table read as an empty record that replaces what was resolved
merge_if_some_reset(resolved, over) ==
    IF over.present THEN merge(resolved, over.layer)
    ELSE [ f \in DOMAIN resolved |-> None ]

\* `if let Some(s) = over { resolved = resolved.merge(s) }`
merge_if_some(resolved, over) ==
    IF over.present THEN merge(resolved, over.layer) ELSE resolved

\* cascade with the state override applied after the status override
cascade_state_last(kind, base, state, status, combined) ==
    into_appearance(kind,
        merge_if_some(merge_if_some(merge_if_some(base, status), state), combined))

\* cascade: base -> state -> status -> combined
cascade(kind, base, state, status, combined) ==
    into_appearance(kind,
        merge_if_some(merge_if_some(merge_if_some(base, state), status), combined))

\* resolve_status with the base merged over the override
resolve_status_base_last(kind, base, status) ==
    IF status.present THEN into_appearance(kind, merge(status.layer, base))
    ELSE into_appearance(kind, base)

\* resolve_status of button.rs, slider.rs, text_input.rs
resolve_status(kind, base, status) ==
    IF status.present THEN into_appearance(kind, merge(base, status.layer))
    ELSE into_appearance(kind, base)

\* CheckboxSection / TogglerSection / RadioSection ::resolve
StatefulResolve(kind, sec) ==
    [ v \in { VariantOf(kind, st, on) : st \in {"active", "hovered", "disabled"},
                                         on \in BOOLEAN } |->
        IF v = VariantOf(kind, "active", FALSE)
          THEN into_appearance(kind, sec.base)
        ELSE IF v = VariantOf(kind, "active", TRUE)
          THEN cascade(kind, sec.base, sec.subs[StateOf(kind)], NoneLayer, NoneLayer)
        ELSE IF v = VariantOf(kind, "hovered", FALSE)
          THEN cascade(kind, sec.base, NoneLayer, sec.subs["hovered"], NoneLayer)
        ELSE IF v = VariantOf(kind, "hovered", TRUE)
          THEN cascade(kind, sec.base, sec.subs[StateOf(kind)], sec.subs["hovered"],
                       sec.subs[CombinedOf(kind, "hovered")])
        ELSE IF v = VariantOf(kind, "disabled", FALSE)
          THEN cascade(kind, sec.base, NoneLayer, sec.subs["disabled"], NoneLayer)
        ELSE cascade(kind, sec.base, sec.subs[StateOf(kind)], sec.subs["disabled"],
                     sec.subs[CombinedOf(kind, "disabled")]) ]

\* ButtonSection / SliderSection / TextInputSection ::resolve
StatusResolve(kind, sec) ==
    [ v \in {"active"} \cup Statuses(kind) |->
        IF v = "active" THEN into_appearance(kind, sec.base)
        ELSE resolve_status(kind, sec.base, sec.subs[v]) ]

\* ContainerSection / ProgressBarSection ::resolve
PlainResolve(kind, sec) ==
    [ v \in {"appearance"} |-> into_appearance(kind, sec.base) ]

\* what a layer named `tag` writes into a field
ValueOf(f, tag) ==
    IF f = "handle_shape"
    THEN (IF tag \in {"base", "dragged"} THEN "rectangle" ELSE "circle")
    ELSE tag

\* the layer named `tag` that sets the fields S
LayerOver(kind, tag, S) ==
    [ f \in Fields(kind) |-> IF f \in S THEN ValueOf(f, tag) ELSE None ]

\* a sub-table: absent, or present with some of the fields P set; present
\* and empty where the whole section sets no field
SubChoices(P) ==
    {[present |-> FALSE, set |-> {}]}
      \cup { [present |-> TRUE, set |-> S] :
               S \in { T \in SUBSET P : T = {} => P = {} } }

\* the section of a kind with the base setting the fields B and the
\* sub-tables as chosen
SectionOf(kind, B, ch) ==
    [base |-> LayerOver(kind, "base", B),
     subs |-> [ n \in SubTables(kind) |->
                  IF ch[n].present THEN SomeLayer(LayerOver(kind, n, ch[n].set))
                  ELSE NoneLayer ]]

\* the sets of at most MaxSet fields of a kind
FieldSets(kind) == { T \in SUBSET Fields(kind) : Cardinality(T) <= MaxSet }

NoSection == [base |-> NoLayer, subs |-> NoLayer]

NoStyle == [ v \in {} |-> NoLayer ]

(***************************************************************************)
(* ThemeRaw, TryFrom<ThemeRaw> for ThemeConfig and the accessors           *)
(* (config.rs, lib.rs)                                                     *)
(***************************************************************************)

\* Option<Section> and Option<Style>
SomeSection(sec) == [present |-> TRUE, sec |-> sec]

NoneSection == [present |-> FALSE, sec |-> NoSection]

SomeStyle(st) == [present |-> TRUE, style |-> st]

NoneStyle == [present |-> FALSE, style |-> NoStyle]

\* `s.resolve()` for a section of each kind
section_resolve(k, sec) ==
    IF k \in StatefulKinds THEN StatefulResolve(k, sec)
    ELSE IF k \in StatusKinds THEN StatusResolve(k, sec)
    ELSE PlainResolve(k, sec)

\* FontRaw: four optional fields
FontRaw(family, weight, stretch, slant) ==
    [family |-> family, weight |-> weight, stretch |-> stretch, style |-> slant]

SomeFont(f) == [present |-> TRUE, font |-> f]

NoneFont == [present |-> FALSE, font |-> FontRaw(None, None, None, None)]

GenericFamilies == {"serif", "monospace", "cursive", "fantasy"}

font_family(family) ==
    IF family \in {None, "sans-serif"} THEN "Family::SansSerif"
    ELSE IF family \in GenericFamilies THEN "Family::" \o family
    ELSE "Family::Name(" \o family \o ")"

build_font(f) ==
    FontRaw(font_family(f.family),
            IF f.weight # None THEN "Weight::" \o f.weight ELSE "Weight::Normal",
            IF f.stretch # None THEN "Stretch::" \o f.stretch ELSE "Stretch::Normal",
            IF f.style # None THEN "Style::" \o f.style ELSE "Style::Normal")

NameCustom == "Custom"

\* the six colors of the palette, already parsed
PaletteOf(c) ==
    [background |-> c, text |-> c, primary |-> c, success |-> c, warning |-> c,
     danger |-> c]

ThemeRaw(name, palette, font, sections) ==
    [name |-> name, palette |-> palette, font |-> font, sections |-> sections]

ThemeConfig(name, palette, font, styles) ==
    [name |-> name, theme |-> [name |-> name, palette |-> palette],
     font |-> font, styles |-> styles]

ConfigOk(c) == [ok |-> TRUE, theme |-> c, err |-> "none"]

ConfigErr(e) ==
    [ok |-> FALSE,
     theme |-> ThemeConfig("", PaletteOf(ColorTRANSPARENT), NoneFont,
                           [ k \in Kinds |-> NoneStyle ]),
     err |-> e]

\* nothing returned yet
NoConfig == ConfigErr("pending")

NoRaw ==
    ThemeRaw(None, PaletteOf(ColorTRANSPARENT), NoneFont, [ k \in Kinds |-> NoneSection ])

\* a section header with nothing under it
EmptySection(k) ==
    SectionOf(k, {}, [ n \in SubTables(k) |-> [present |-> FALSE, set |-> {}] ])

\* a section is resolved even where the document has none
try_from_defaulting(r) ==
    ConfigOk(ThemeConfig(
        UnwrapOr(r.name, NameCustom),
        r.palette,
        IF r.font.present THEN SomeFont(build_font(r.font.font)) ELSE NoneFont,
        [ k \in Kinds |->
            SomeStyle(section_resolve(k, IF r.sections[k].present
                                         THEN r.sections[k].sec
                                         ELSE EmptySection(k))) ]))

\* TryFrom<ThemeRaw>::try_from: the name's default, the palette, the font and
\* `raw.<kind>.map(|s| s.resolve())` for each of the eight kinds
try_from(r) ==
    ConfigOk(ThemeConfig(
        UnwrapOr(r.name, NameCustom),
        r.palette,
        IF r.font.present THEN SomeFont(build_font(r.font.font)) ELSE NoneFont,
        [ k \in Kinds |->
            IF r.sections[k].present
            THEN SomeStyle(section_resolve(k, r.sections[k].sec))
            ELSE NoneStyle ]))

\* ThemeConfig::button(), ::container(), ... : `self.<kind>.as_ref()`
accessor(c, k) == c.styles[k]

\* the field of a kind the sample sections set
SampleField(k) == CHOOSE f \in Fields(k) : f # "handle_shape"

\* a section whose base and sub-tables all set one field
SampleSection(k) ==
    SectionOf(k, {SampleField(k)},
              [ n \in SubTables(k) |-> [present |-> TRUE, set |-> {SampleField(k)}] ])

\* a kind's section in the decoded document: omitted, empty, or with fields
SectionChoices == {"omitted", "empty", "fields"}

RawSection(k, c) ==
    IF c = "omitted" THEN NoneSection
    ELSE IF c = "empty" THEN SomeSection(EmptySection(k))
    ELSE SomeSection(SampleSection(k))

\* the name and the font of the decoded document
RawHeads ==
    { [name |-> None, font |-> NoneFont],
      [name |-> "Ocean", font |-> SomeFont(FontRaw("serif", "Bold", None, "Italic"))],
      [name |-> None, font |-> SomeFont(FontRaw("Arial", None, "Condensed", None))] }

(***************************************************************************)
(* ThemeConfig::from_str: the steps and the decoding of a tree (lib.rs,    *)
(* config.rs)                                                              *)
(***************************************************************************)

KeyPalette == <<"p","a","l","e","t","t","e">>

KeyText == <<"t","e","x","t">>

KeyPrimary == <<"p","r","i","m","a","r","y">>

KeySuccess == <<"s","u","c","c","e","s","s">>

KeyWarning == <<"w","a","r","n","i","n","g">>

KeyDanger == <<"d","a","n","g","e","r">>

\* the six required fields of PaletteRaw
PaletteKeys == {KeyBackground, KeyText, KeyPrimary, KeySuccess, KeyWarning, KeyDanger}

\* HexColor::deserialize: a string that parse_color accepts
IsColorNode(node) == node.t = "str" /\ parse_color(node.s).ok

ColorOf(node) == parse_color(node.s).color

DecodePaletteOk(tbl) ==
    /\ tbl.t = "tbl"
    /\ \A key \in PaletteKeys : HasKey(tbl, key) /\ IsColorNode(GetKey(tbl, key))

PaletteFrom(tbl) ==
    [background |-> ColorOf(GetKey(tbl, KeyBackground)),
     text |-> ColorOf(GetKey(tbl, KeyText)),
     primary |-> ColorOf(GetKey(tbl, KeyPrimary)),
     success |-> ColorOf(GetKey(tbl, KeySuccess)),
     warning |-> ColorOf(GetKey(tbl, KeyWarning)),
     danger |-> ColorOf(GetKey(tbl, KeyDanger))]

\* ButtonSection of a table with at most the key `background`
DecodeButtonOk(tbl) ==
    /\ tbl.t = "tbl"
    /\ HasKey(tbl, KeyBackground) => IsColorNode(GetKey(tbl, KeyBackground))

ButtonFrom(tbl) ==
    [base |-> [ f \in Fields("button") |->
                  IF f = "background" /\ HasKey(tbl, KeyBackground)
                  THEN ToString(ColorOf(GetKey(tbl, KeyBackground)))
                  ELSE None ],
     subs |-> [ n \in SubTables("button") |-> NoneLayer ]]

DecodeOk(r) == [ok |-> TRUE, raw |-> r]

DecodeErr == [ok |-> FALSE, raw |-> NoRaw]

\* ThemeRaw::deserialize on a tree whose keys are among `palette` and
\* `button`: the palette is required and its six colors must parse, the
\* button section is optional and its color must parse
deserialize(r) ==
    IF ~HasKey(r, KeyPalette) THEN DecodeErr
    ELSE IF ~DecodePaletteOk(GetKey(r, KeyPalette)) THEN DecodeErr
    ELSE IF ~HasKey(r, KeyButton)
      THEN DecodeOk(ThemeRaw(None, PaletteFrom(GetKey(r, KeyPalette)), NoneFont,
                             [ k \in Kinds |-> NoneSection ]))
    ELSE IF ~DecodeButtonOk(GetKey(r, KeyButton)) THEN DecodeErr
    ELSE DecodeOk(ThemeRaw(None, PaletteFrom(GetKey(r, KeyPalette)), NoneFont,
                           [ k \in Kinds |->
                               IF k = "button"
                               THEN SomeSection(ButtonFrom(GetKey(r, KeyButton)))
                               ELSE NoneSection ]))

\* the steps of from_str, in the order of its statements
StepOrder == <<"parse", "resolve", "decode", "cascade">>

\* a failed resolve is taken for a success
resolve_failed_never(res) == FALSE

\* `variables::resolve(&mut value).map_err(..)?`
resolve_failed(res) == res.kind # "ok"

\* the palette of a document: all six colors, the background as given
PaletteTable(bg) ==
    VTbl(<< KeyBackground, KeyDanger, KeyPrimary, KeySuccess, KeyText, KeyWarning >>,
         << VStr(bg), VStr(LitColor), VStr(LitColor), VStr(LitColor), VStr(LitColor),
            VStr(LitColor) >>)

PaletteOpts ==
    {NoEntry} \cup
    { Entry(KeyPalette, PaletteTable(bg)) : bg \in {LitColor, Ref(NameA), Ref(NameUndefined)} }

ThemeButtonOpts ==
    {NoEntry, Entry(KeyButton, VTbl(<<>>, <<>>))} \cup
    { Entry(KeyButton, VTbl(<< KeyBackground >>, << VStr(bg) >>)) :
        bg \in {LitColor, Ref(NameA), ExprTintA, NameA} }

\* the documents handed to from_str: a root table, its keys in sorted order
ThemeDocuments ==
    { VTbl(b.keys \o q.keys \o v.keys, b.kids \o q.kids \o v.kids) :
        b \in ThemeButtonOpts, q \in PaletteOpts, v \in VariablesOpts }

(***************************************************************************)
(* The tokens handed to parse_color                                        *)
(***************************************************************************)

\* the longest text after (or without) the `#` of the tokens spelled from
\* BodyChars
MaxHexLen == 8

\* a hex digit in lower case, a sign and a letter that is no hex digit
BodyChars == {"f", "+", "g"}

Bodies == UNION { [ 1..n -> BodyChars ] : n \in 0..MaxHexLen }

\* every token over BodyChars, with and without the `#`
SpelledTokens == Bodies \cup { <<"#">> \o b : b \in Bodies }

HexChars == SeqRange(HexDigitSeq) \cup {"A", "B", "C", "D", "E", "F"}

\* every way to write a byte in two hex digits of either case
ByteTexts == { << a, b >> : a \in HexChars, b \in HexChars }

\* tokens in which one channel takes every byte
ChannelTokens ==
    { <<"#">> \o x \o <<"8","0","f","F">> : x \in ByteTexts }
      \cup { <<"#","8","0">> \o x \o <<"f","F">> : x \in ByteTexts }
      \cup { <<"#","8","0","f","F">> \o x : x \in ByteTexts }
      \cup { <<"#","1","a","2","B","3","c">> \o x : x \in ByteTexts }

ShortTokens ==
    { <<"#", a, b, c>> : a \in HexChars, b \in {"0", "8", "c", "F"},
                         c \in {"0", "7", "a", "E"} }

NameTokens ==
    { NameBlack, NameWhite, NameTransparent,
      <<"B","l","a","c","k">>, <<"W","H","I","T","E">>,
      <<"b","l","a","c">>, <<"#","b","l","a","c","k">>,
      <<"t","r","a","n","s","p","a","r","e","n","t"," ">> }

\* the longest text of characters inside and outside ASCII after the `#`
MaxWideLen == 3

WideChars == {"f", "g", CharEAcute, CharEuro}

\* tokens with characters of two and three bytes
WideTokens ==
    { <<"#">> \o b : b \in UNION { [ 1..n -> WideChars ] : n \in 1..MaxWideLen } }

Tokens ==
    SpelledTokens \cup ChannelTokens \cup ShortTokens \cup NameTokens \cup WideTokens

(***************************************************************************)
(* The texts handed to parse_percent                                       *)
(***************************************************************************)

\* the largest number written in a percentage text
MaxPercent == 300

\* the decimal digits of n
RECURSIVE DecimalText(_)
DecimalText(n) ==
    IF n < 10 THEN << DigitSeq[n + 1] >>
    ELSE Append(DecimalText(n \div 10), DigitSeq[(n % 10) + 1])

\* the ways a number is written: with the suffix, without it, signed, with
\* a leading zero, with blanks around the digits, with another suffix
PercentForms(d) ==
    { d \o <<"%">>, d, <<"+">> \o d \o <<"%">>, <<"-">> \o d \o <<"%">>,
      <<"0">> \o d \o <<"%">>, <<" ">> \o d \o <<" ","%">>,
      d \o <<"d","e","g">>, d \o <<".","5","%">>, d \o <<"%","%">> }

PercentTexts ==
    UNION { PercentForms(DecimalText(n)) : n \in 0..MaxPercent }
      \cup { <<>>, <<"%">>, <<"+","%">>, <<"x","%">>, <<"#","F","8","0">> }

(***************************************************************************)
(* The calls handed to apply                                               *)
(***************************************************************************)

\* the longest argument list
MaxArgs == 4

FnBake == <<"b","a","k","e">>

\* the supported names, a name in another case, the empty name and an
\* unknown one
CallNames == KnownFns \cup {FnBake, <<"D","a","r","k","e","n">>, <<>>}

NameUnresolved == <<"b">>

\* a literal, a defined and an undefined reference, a reference to a value
\* that is a reference, a percentage, an angle
ArgTexts ==
    {LitColor, Ref(NameA), Ref(NameUndefined), Ref(NameUnresolved),
     <<"5","%">>, <<"1","0","d","e","g">>}

ArgLists == UNION { [ 1..n -> ArgTexts ] : n \in 0..MaxArgs }

\* the table the calls are evaluated against
CallTable ==
    [ k \in {NameA, NameUnresolved} |-> IF k = NameA THEN LitColor ELSE Ref(NameA) ]

(***************************************************************************)
(* State                                                                   *)
(***************************************************************************)

VARIABLES
    entry,      \* "resolve": resolve(root) runs; "evaluate": evaluate(vars) alone
    pc,         \* the position in resolve / evaluate
    root,       \* the document tree, mutated in place
    root0,      \* the document as given
    vars,       \* the variable table (HashMap<String, String>)
    vars0,      \* the table as handed to evaluate
    snapshot,   \* the clone the current pass reads
    changed,    \* the pass's `changed` flag
    pass,       \* the index of the pass loop
    scans,      \* the number of passes begun
    todo,       \* the keys the current iteration has not visited yet
    result,     \* what resolve / evaluate returned
    kind,       \* the field-set type of the layers
    layerX,     \* three layers of that kind, in cascade order
    layerA,
    layerB,
    mergedXA,   \* layerX.merge(&layerA)
    mergedAB,   \* layerA.merge(&layerB)
    left,       \* layerX.merge(&layerA).merge(&layerB)
    right,      \* layerX.merge(&layerA.merge(&layerB))
    section,    \* a decoded section of `kind`: its base and its sub-tables
    style,      \* the section's resolved style: an appearance per variant
    text,       \* the string handed to from_str: well-formed or not, and its tree
    raw,        \* the decoded ThemeRaw
    config,     \* what try_from / from_str returned
    steps,      \* the steps of from_str begun so far, in order
    token,      \* the string handed to parse_color
    parsed,     \* what parse_color returned
    shown,      \* the Display of the parsed color
    request,    \* a function name and its arguments, handed to apply
    answer      \* what apply returned

resolveVars == << pc, root, root0, vars, vars0, snapshot, changed, pass,
                  scans, todo, result >>

mergeVars == << kind, layerX, layerA, layerB, mergedXA, mergedAB, left, right >>

styleVars == << section, style >>

themeVars == << text, raw, config, steps >>

colorVars == << token, parsed, shown >>

exprVars == << request, answer >>

\* the variables outside merge and Section::resolve
laterVars == << themeVars, colorVars, exprVars >>

\* the variables outside resolve and evaluate
sideVars == << mergeVars, styleVars, laterVars >>

allVars == << entry, resolveVars, sideVars >>

EmptyRoot == VTbl(<<>>, <<>>)

\* no string at hand
NoText == [wellformed |-> FALSE, value |-> EmptyRoot]

NoCall == [name |-> <<>>, args |-> <<>>]

NoAnswer == EvalErr("none", <<>>, 0, 0)

\* resolve is not running
ResolverIdle ==
    /\ root = EmptyRoot
    /\ root0 = EmptyRoot
    /\ vars = EmptyVars
    /\ vars0 = EmptyVars
    /\ snapshot = EmptyVars
    /\ changed = FALSE
    /\ pass = 0
    /\ scans = 0
    /\ todo = {}
    /\ result = ResNone

\* no layers at hand
MergeIdle ==
    /\ kind = "none"
    /\ layerX = NoLayer
    /\ layerA = NoLayer
    /\ layerB = NoLayer
    /\ mergedXA = NoLayer
    /\ mergedAB = NoLayer
    /\ left = NoLayer
    /\ right = NoLayer

\* no section at hand
StyleIdle ==
    /\ section = NoSection
    /\ style = NoStyle

\* no theme under construction
ThemeIdle ==
    /\ text = NoText
    /\ raw = NoRaw
    /\ config = NoConfig
    /\ steps = <<>>

\* no color token at hand
ColorIdle ==
    /\ token = <<>>
    /\ parsed = ColorErr("none")
    /\ shown = <<>>

\* no call at hand
ExprIdle ==
    /\ request = NoCall
    /\ answer = NoAnswer

LaterIdle ==
    /\ ThemeIdle
    /\ ColorIdle
    /\ ExprIdle

InitCommon ==
    /\ MergeIdle
    /\ StyleIdle
    /\ LaterIdle
    /\ snapshot = EmptyVars
    /\ changed = FALSE
    /\ pass = 0
    /\ scans = 0
    /\ todo = {}
    /\ result = ResNone

\* resolve(&mut root) is about to run on a parsed document
Init ==
    /\ entry = "resolve"
    /\ pc = "resolve"
    /\ root \in Documents
    /\ root0 = root
    /\ vars = EmptyVars
    /\ vars0 = EmptyVars
    /\ InitCommon

\* evaluate(vars) is about to run on an extracted, non-empty table
InitEval ==
    /\ entry = "evaluate"
    /\ pc = "loop"
    /\ root = EmptyRoot
    /\ root0 = EmptyRoot
    /\ vars \in EvalTables
    /\ vars0 = vars
    /\ InitCommon

(***************************************************************************)
(* resolve: extract, the early return, then evaluate and substitute        *)
(***************************************************************************)

Finish(res) ==
    /\ pc' = "done"
    /\ result' = res

Extract ==
    /\ UNCHANGED sideVars
    /\ pc = "resolve"
    /\ LET e == extract(root) IN
       /\ root' = ExtractRoot(root)
       /\ IF e.res.kind # "ok"
          THEN Finish(e.res) /\ UNCHANGED << vars, vars0 >>
          ELSE IF VarsIsEmpty(e.table)
          THEN Finish(ResOk) /\ UNCHANGED << vars, vars0 >>
          ELSE /\ vars' = e.table
               /\ vars0' = e.table
               /\ pc' = "loop"
               /\ UNCHANGED result
    /\ UNCHANGED << entry, root0, snapshot, changed, pass, scans, todo >>

(***************************************************************************)
(* evaluate, phase 1: the pass loop                                        *)
(***************************************************************************)

\* the head of `for _ in 0..=vars.len()`: clone the table and start a scan
BeginPass ==
    /\ UNCHANGED sideVars
    /\ pc = "loop"
    /\ pass \in PassRange(vars)
    /\ snapshot' = vars
    /\ changed' = FALSE
    /\ todo' = DOMAIN vars
    /\ scans' = scans + 1
    /\ pc' = "scan"
    /\ UNCHANGED << entry, root, root0, vars, vars0, pass, result >>

\* the loop's range is used up
LoopExhausted ==
    /\ UNCHANGED sideVars
    /\ pc = "loop"
    /\ pass \notin PassRange(vars)
    /\ pc' = "check"
    /\ UNCHANGED << entry, root, root0, vars, vars0, snapshot, changed, pass,
                    scans, todo, result >>

\* a missing name is passed over once the scan has changed a value
VisitStoreAfterChange(key, o) ==
    IF o.kind = "undefined" /\ ~changed
    THEN /\ Finish(Res("undefined", o.name, key, {}, "none"))
         /\ UNCHANGED << vars, changed, todo >>
    ELSE /\ vars' = [vars EXCEPT ![key] = o.value]
         /\ changed' = IF o.kind = "write" THEN TRUE ELSE changed
         /\ todo' = todo \ {key}
         /\ UNCHANGED << pc, result >>

\* one iteration of `for (key, val) in vars.iter_mut()`; the HashMap's order
\* is any order
VisitStore(key, o) ==
    IF o.kind = "undefined"
    THEN /\ Finish(Res("undefined", o.name, key, {}, "none"))
         /\ UNCHANGED << vars, changed, todo >>
    ELSE /\ vars' = [vars EXCEPT ![key] = o.value]
         /\ changed' = IF o.kind = "skip" THEN changed
                        ELSE MarkChanged(changed, o.kind = "write")
         /\ todo' = todo \ {key}
         /\ UNCHANGED << pc, result >>

Visit(key) ==
    /\ UNCHANGED sideVars
    /\ pc = "scan"
    /\ key \in todo
    /\ VisitStore(key, VisitOutcome(vars[key], StripPrefix(vars[key], "$"),
                                    PassSource(snapshot, vars)))
    /\ UNCHANGED << entry, root, root0, vars0, snapshot, pass, scans >>

\* the end of a scan: `if !changed { break; }`, else the next pass
EndPass ==
    /\ UNCHANGED sideVars
    /\ pc = "scan"
    /\ todo = {}
    /\ IF ~changed
       THEN pc' = "check" /\ UNCHANGED pass
       ELSE pc' = "loop" /\ pass' = pass + 1
    /\ UNCHANGED << entry, root, root0, vars, vars0, snapshot, changed, scans,
                    todo, result >>

\* after the loop: remaining `$` values are reported as a cycle; otherwise
\* phase 2 starts from a fresh clone
CycleCheck ==
    /\ UNCHANGED sideVars
    /\ pc = "check"
    /\ LET cyclic == CyclicNames(vars) IN
       IF cyclic # {}
       THEN /\ Finish(Res("cyclic", <<>>, <<>>, cyclic, "none"))
            /\ UNCHANGED << snapshot, todo >>
       ELSE /\ snapshot' = vars
            /\ todo' = DOMAIN vars
            /\ pc' = "phase2"
            /\ UNCHANGED result
    /\ UNCHANGED << entry, root, root0, vars, vars0, changed, pass, scans >>

(***************************************************************************)
(* evaluate, phase 2: expressions among the variables                      *)
(***************************************************************************)

\* `*val = evaluate(val, &snapshot).map_err(...)?`
EvalVarStore(key, r) ==
    IF r.ok
    THEN /\ vars' = [vars EXCEPT ![key] = r.val]
         /\ todo' = todo \ {key}
         /\ UNCHANGED << pc, result >>
    ELSE /\ Finish(Res("exprVariable", r.name, key, {}, r.err))
         /\ UNCHANGED << vars, todo >>

\* one iteration of phase 2's `for (key, val) in vars.iter_mut()`
EvalVar(key) ==
    /\ UNCHANGED sideVars
    /\ pc = "phase2"
    /\ key \in todo
    /\ IF ~is_expr(vars[key])
       THEN /\ todo' = todo \ {key}
            /\ UNCHANGED << vars, pc, result >>
       ELSE \E hex \in FarverHex :
              EvalVarStore(key, expr_evaluate(vars[key], ExprSource(snapshot, vars), hex))
    /\ UNCHANGED << entry, root, root0, vars0, snapshot, changed, pass, scans >>

\* `Ok(vars)`: evaluate returns; resolve goes on to substitute
EvalReturn ==
    /\ UNCHANGED sideVars
    /\ pc = "phase2"
    /\ todo = {}
    /\ IF entry = "evaluate"
       THEN Finish(ResOk)
       ELSE pc' = "substitute" /\ UNCHANGED result
    /\ UNCHANGED << entry, root, root0, vars, vars0, snapshot, changed, pass,
                    scans, todo >>

(***************************************************************************)
(* substitute(root, &vars)                                                 *)
(***************************************************************************)

SubstituteStore(r) ==
    /\ root' = r.v
    /\ Finish(r.res)

Substitute ==
    /\ UNCHANGED sideVars
    /\ pc = "substitute"
    /\ \E hex \in FarverHex : SubstituteStore(substitute(root, vars, hex))
    /\ UNCHANGED << entry, root0, vars, vars0, snapshot, changed, pass, scans,
                    todo >>

NextEval ==
    \/ BeginPass
    \/ LoopExhausted
    \/ \E key \in DOMAIN vars : Visit(key)
    \/ EndPass
    \/ CycleCheck
    \/ \E key \in DOMAIN vars : EvalVar(key)
    \/ EvalReturn

Next ==
    \/ Extract
    \/ NextEval
    \/ Substitute

(***************************************************************************)
(* merge on three layers of one kind                                       *)
(***************************************************************************)

\* three layers of one kind; each layer writes a value of its own, so that
\* the layer a merged field came from can be read off the result
InitMerge ==
    /\ entry = "merge"
    /\ pc = "merge"
    /\ root = EmptyRoot
    /\ root0 = EmptyRoot
    /\ vars = EmptyVars
    /\ vars0 = EmptyVars
    /\ snapshot = EmptyVars
    /\ changed = FALSE
    /\ pass = 0
    /\ scans = 0
    /\ todo = {}
    /\ result = ResNone
    /\ kind \in Kinds
    /\ layerX \in Layers(kind, "x")
    /\ layerA \in Layers(kind, "a")
    /\ layerB \in Layers(kind, "b")
    /\ mergedXA = NoLayer
    /\ mergedAB = NoLayer
    /\ left = NoLayer
    /\ right = NoLayer
    /\ StyleIdle
    /\ LaterIdle

\* `x.merge(&a).merge(&b)`, the order of a cascade
MergeLeft ==
    /\ pc = "merge"
    /\ mergedXA' = merge(layerX, layerA)
    /\ left' = merge(merge(layerX, layerA), layerB)
    /\ pc' = "merged_left"
    /\ UNCHANGED << entry, root, root0, vars, vars0, snapshot, changed, pass,
                    scans, todo, result, kind, layerX, layerA, layerB, mergedAB,
                    right, styleVars, laterVars >>

\* `x.merge(&a.merge(&b))`
MergeRight ==
    /\ pc = "merged_left"
    /\ mergedAB' = merge(layerA, layerB)
    /\ right' = merge(layerX, merge(layerA, layerB))
    /\ pc' = "done"
    /\ UNCHANGED << entry, root, root0, vars, vars0, snapshot, changed, pass,
                    scans, todo, result, kind, layerX, layerA, layerB, mergedXA,
                    left, styleVars, laterVars >>

NextMerge ==
    \/ MergeLeft
    \/ MergeRight

\* resolve on a document
Spec == Init /\ [][Next]_allVars

\* evaluate on a variable table
SpecEval == InitEval /\ [][NextEval]_allVars

\* merge on layers
SpecMerge == InitMerge /\ [][NextMerge]_allVars

(***************************************************************************)
(* Section::resolve for each kind                                          *)
(***************************************************************************)

\* a decoded section of some kind, in which at most MaxSet fields are ever
\* set, is about to be resolved
InitStyle ==
    /\ entry = "style"
    /\ pc = "section"
    /\ root = EmptyRoot
    /\ root0 = EmptyRoot
    /\ vars = EmptyVars
    /\ vars0 = EmptyVars
    /\ snapshot = EmptyVars
    /\ changed = FALSE
    /\ pass = 0
    /\ scans = 0
    /\ todo = {}
    /\ result = ResNone
    /\ kind \in Kinds
    /\ layerX = NoLayer
    /\ layerA = NoLayer
    /\ layerB = NoLayer
    /\ mergedXA = NoLayer
    /\ mergedAB = NoLayer
    /\ left = NoLayer
    /\ right = NoLayer
    /\ \E P \in FieldSets(kind) :
         \E B \in SUBSET P, ch \in [ SubTables(kind) -> SubChoices(P) ] :
           section = SectionOf(kind, B, ch)
    /\ style = NoStyle
    /\ LaterIdle

StyleFrame ==
    UNCHANGED << entry, root, root0, vars, vars0, snapshot, changed, pass, scans,
                 todo, result, mergeVars, section, laterVars >>

\* CheckboxSection::resolve, TogglerSection::resolve, RadioSection::resolve
ResolveStateful ==
    /\ pc = "section"
    /\ kind \in StatefulKinds
    /\ style' = StatefulResolve(kind, section)
    /\ pc' = "done"
    /\ StyleFrame

\* ButtonSection::resolve, SliderSection::resolve, TextInputSection::resolve
ResolveStatus ==
    /\ pc = "section"
    /\ kind \in StatusKinds
    /\ style' = StatusResolve(kind, section)
    /\ pc' = "done"
    /\ StyleFrame

\* ContainerSection::resolve, ProgressBarSection::resolve
ResolvePlain ==
    /\ pc = "section"
    /\ kind \in PlainKinds
    /\ style' = PlainResolve(kind, section)
    /\ pc' = "done"
    /\ StyleFrame

NextStyle ==
    \/ ResolveStateful
    \/ ResolveStatus
    \/ ResolvePlain

\* resolve on sections
SpecStyle == InitStyle /\ [][NextStyle]_allVars

(***************************************************************************)
(* TryFrom<ThemeRaw> on a decoded document                                 *)
(***************************************************************************)

\* a decoded document, each kind's section omitted, empty or with fields, is
\* about to be converted
InitTheme ==
    /\ entry = "try_from"
    /\ pc = "try_from"
    /\ ResolverIdle
    /\ MergeIdle
    /\ StyleIdle
    /\ ColorIdle
    /\ ExprIdle
    /\ text = NoText
    /\ \E head \in RawHeads :
         \E ch \in [ Kinds -> SectionChoices ] :
           raw = ThemeRaw(head.name, PaletteOf(ColorWHITE), head.font,
                          [ k \in Kinds |-> RawSection(k, ch[k]) ])
    /\ config = NoConfig
    /\ steps = <<>>

\* `raw.try_into()`
TryFrom ==
    /\ pc = "try_from"
    /\ steps' = Append(steps, "cascade")
    /\ config' = try_from(raw)
    /\ pc' = "returned"
    /\ UNCHANGED << entry, root, root0, vars, vars0, snapshot, changed, pass, scans,
                    todo, result, mergeVars, styleVars, text, raw, colorVars,
                    exprVars >>

NextTheme == TryFrom

(***************************************************************************)
(* ThemeConfig::from_str on a string                                       *)
(***************************************************************************)

\* the strings: one that toml::from_str rejects, and the well-formed ones,
\* each with the tree it parses to
Texts ==
    {NoText} \cup { [wellformed |-> TRUE, value |-> d] : d \in ThemeDocuments }

InitFromStr ==
    /\ entry = "from_str"
    /\ pc = "from_str"
    /\ ResolverIdle
    /\ MergeIdle
    /\ StyleIdle
    /\ ColorIdle
    /\ ExprIdle
    /\ text \in Texts
    /\ raw = NoRaw
    /\ config = NoConfig
    /\ steps = <<>>

\* `let mut value: toml::Value = toml::from_str(s)?`
Parse ==
    /\ pc = "from_str"
    /\ steps' = Append(steps, "parse")
    /\ IF text.wellformed
       THEN /\ root' = text.value
            /\ root0' = text.value
            /\ pc' = "variables"
            /\ UNCHANGED config
       ELSE /\ config' = ConfigErr("Parse")
            /\ pc' = "returned"
            /\ UNCHANGED << root, root0 >>
    /\ UNCHANGED << entry, vars, vars0, snapshot, changed, pass, scans, todo, result,
                    mergeVars, styleVars, text, raw, colorVars, exprVars >>

\* the call `variables::resolve(&mut value)`
CallResolve ==
    /\ pc = "variables"
    /\ steps' = Append(steps, "resolve")
    /\ pc' = "resolve"
    /\ UNCHANGED << entry, root, root0, vars, vars0, snapshot, changed, pass, scans,
                    todo, result, mergeVars, styleVars, text, raw, config, colorVars,
                    exprVars >>

\* resolve has returned: `.map_err(|reason| Error::InvalidColor { .. })?`
ResolveReturn ==
    /\ entry = "from_str"
    /\ pc = "done"
    /\ IF resolve_failed(result)
       THEN /\ config' = ConfigErr("InvalidColor")
            /\ pc' = "returned"
       ELSE /\ pc' = "deserialize"
            /\ UNCHANGED config
    /\ UNCHANGED << entry, root, root0, vars, vars0, snapshot, changed, pass, scans,
                    todo, result, mergeVars, styleVars, text, raw, steps, colorVars,
                    exprVars >>

DeserializeStore(d) ==
    IF d.ok
    THEN /\ raw' = d.raw
         /\ pc' = "try_from"
         /\ UNCHANGED config
    ELSE /\ config' = ConfigErr("Parse")
         /\ pc' = "returned"
         /\ UNCHANGED raw

\* `let raw: config::ThemeRaw = serde::Deserialize::deserialize(value)?`
Deserialize ==
    /\ pc = "deserialize"
    /\ steps' = Append(steps, "decode")
    /\ DeserializeStore(deserialize(root))
    /\ UNCHANGED << entry, root, root0, vars, vars0, snapshot, changed, pass, scans,
                    todo, result, mergeVars, styleVars, text, colorVars, exprVars >>

NextFromStr ==
    \/ Parse
    \/ CallResolve
    \/ Extract
    \/ NextEval
    \/ Substitute
    \/ ResolveReturn
    \/ Deserialize
    \/ TryFrom

\* from_str on strings
SpecFromStr == InitFromStr /\ [][NextFromStr]_allVars

\* try_from on decoded documents
SpecTheme == InitTheme /\ [][NextTheme]_allVars

(***************************************************************************)
(* parse_color on a token, then Display on the color                       *)
(***************************************************************************)

InitColor ==
    /\ entry = "parse_color"
    /\ pc = "parse_color"
    /\ ResolverIdle
    /\ MergeIdle
    /\ StyleIdle
    /\ ThemeIdle
    /\ ExprIdle
    /\ token \in Tokens
    /\ parsed = ColorErr("none")
    /\ shown = <<>>

\* the value parse_color returns; after a panic there is none
ParseColorStore(r) ==
    IF r = ColorPanic
    THEN pc' = "aborted" /\ UNCHANGED parsed
    ELSE pc' = "parsed" /\ parsed' = r

\* parse_color(token)
ParseColor ==
    /\ pc = "parse_color"
    /\ ParseColorStore(parse_color(token))
    /\ UNCHANGED << entry, root, root0, vars, vars0, snapshot, changed, pass, scans,
                    todo, result, mergeVars, styleVars, themeVars, exprVars, token,
                    shown >>

\* `format!("{}", HexColor(color))` on the color that was parsed
Display ==
    /\ pc = "parsed"
    /\ parsed.ok
    /\ shown' = display(parsed.color)
    /\ pc' = "shown"
    /\ UNCHANGED << entry, root, root0, vars, vars0, snapshot, changed, pass, scans,
                    todo, result, mergeVars, styleVars, themeVars, exprVars, token,
                    parsed >>

NextColor ==
    \/ ParseColor
    \/ Display

\* parse_color and Display on tokens
SpecColor == InitColor /\ [][NextColor]_allVars

(***************************************************************************)
(* apply on a function name and an argument list                           *)
(***************************************************************************)

InitExpr ==
    /\ entry = "apply"
    /\ pc = "apply"
    /\ ResolverIdle
    /\ MergeIdle
    /\ StyleIdle
    /\ ThemeIdle
    /\ ColorIdle
    /\ \E name \in CallNames, args \in ArgLists :
         request = [name |-> name, args |-> args]
    /\ answer = NoAnswer

\* apply(fn_name, &args, vars)
Apply ==
    /\ pc = "apply"
    /\ \E hex \in FarverHex :
         answer' = apply(request.name, request.args, CallTable, hex)
    /\ pc' = "done"
    /\ UNCHANGED << entry, root, root0, vars, vars0, snapshot, changed, pass, scans,
                    todo, result, mergeVars, styleVars, themeVars, colorVars,
                    request >>

NextExpr == Apply

\* apply on calls
SpecExpr == InitExpr /\ [][NextExpr]_allVars

(***************************************************************************)
(* parse_percent on an argument                                            *)
(***************************************************************************)

InitPercent ==
    /\ entry = "parse_percent"
    /\ pc = "parse_percent"
    /\ ResolverIdle
    /\ MergeIdle
    /\ StyleIdle
    /\ ThemeIdle
    /\ ColorIdle
    /\ \E s \in PercentTexts : request = [name |-> <<>>, args |-> << s >>]
    /\ answer = NoAnswer

\* parse_percent(s)
ParsePercent ==
    /\ pc = "parse_percent"
    /\ answer' = parse_percent(request.args[1])
    /\ pc' = "done"
    /\ UNCHANGED << entry, root, root0, vars, vars0, snapshot, changed, pass, scans,
                    todo, result, mergeVars, styleVars, themeVars, colorVars,
                    request >>

NextPercent == ParsePercent

\* parse_percent on texts
SpecPercent == InitPercent /\ [][NextPercent]_allVars

(***************************************************************************)
(* Properties of evaluate (checked under SpecEval)                         *)
(***************************************************************************)

IsRef(s) == StartsWith(s, "$")

\* every `$`-reference of the table names one of its keys
AllDefined(tb) == \A k \in DOMAIN tb : IsRef(tb[k]) => Tail(tb[k]) \in DOMAIN tb

HasUndefined(tb) == ~AllDefined(tb)

\* following the references from k leads to target in at most fuel + 1 steps
RECURSIVE Reaches(_, _, _, _)
Reaches(tb, k, target, fuel) ==
    /\ IsRef(tb[k])
    /\ Tail(tb[k]) \in DOMAIN tb
    /\ \/ Tail(tb[k]) = target
       \/ fuel > 0 /\ Reaches(tb, Tail(tb[k]), target, fuel - 1)

OnCycle(tb, k) == Reaches(tb, k, k, Cardinality(DOMAIN tb))

HasCycle(tb) == \E k \in DOMAIN tb : OnCycle(tb, k)

PassesOver == pc \in {"check", "phase2", "done"}

\* C1, as stated: on a table without a reference cycle and without a
\* reference to an unknown name, phase 1 takes at most |vars| + 1 passes and
\* afterwards no variable's value contains the character `$`.
C1_NoDollarAnywhere ==
    (entry = "evaluate" /\ AllDefined(vars0) /\ ~HasCycle(vars0)) =>
        /\ scans <= Cardinality(DOMAIN vars0) + 1
        /\ PassesOver => \A k \in DOMAIN vars : ~Contains(vars[k], "$")

\* C1, amended: on a table without a reference cycle and without a reference
\* to an unknown name, phase 1 takes at most |vars| + 1 passes, reports
\* neither an undefined variable nor a cycle, and afterwards no variable's
\* value starts with `$` (a `$` may remain inside a value).
C1_NoLeadingDollar ==
    (entry = "evaluate" /\ AllDefined(vars0) /\ ~HasCycle(vars0)) =>
        /\ scans <= Cardinality(DOMAIN vars0) + 1
        /\ result.kind \notin {"undefined", "cyclic"}
        /\ PassesOver => \A k \in DOMAIN vars : ~IsRef(vars[k])

\* a chain of two references ending in a literal that holds a `$` has been
\* resolved in three passes
C1_Witness ==
    /\ entry = "evaluate"
    /\ pc = "done"
    /\ result.kind = "ok"
    /\ AllDefined(vars0) /\ ~HasCycle(vars0)
    /\ scans = 3
    /\ \E k \in DOMAIN vars : IsRef(vars0[k]) /\ vars[k] = DollarLit

C3_UndefinedReported ==
    (entry = "evaluate" /\ HasUndefined(vars0)) =>
        /\ pc \notin {"check", "phase2"}
        /\ scans <= 1
        /\ pc = "done" =>
             /\ result.kind = "undefined"
             /\ result.name \notin DOMAIN vars0
             /\ result.from \in DOMAIN vars0
             /\ vars0[result.from] = Ref(result.name)

\* a = "$b" with no b has failed naming b and a
C3_Witness ==
    /\ entry = "evaluate"
    /\ pc = "done"
    /\ DOMAIN vars0 = { <<"a">> }
    /\ vars0[<<"a">>] = Ref(<<"b">>)
    /\ result.kind = "undefined"
    /\ result.name = <<"b">>
    /\ result.from = <<"a">>

(***************************************************************************)
(* Properties of resolve (checked under Spec)                              *)
(***************************************************************************)

ResolvedOk == entry = "resolve" /\ pc = "done" /\ result.kind = "ok"

\* no string of the tree starts with `$` or is shaped like an expression
RECURSIVE NoRefOrExprLeft(_)
NoRefOrExprLeft(node) ==
    IF node.t = "str" THEN ~IsRef(node.s) /\ ~is_expr(node.s)
    ELSE \A i \in 1..Len(node.kids) : NoRefOrExprLeft(node.kids[i])

\* some string of the tree starts with `$`
RECURSIVE HasRefString(_)
HasRefString(node) ==
    IF node.t = "str" THEN IsRef(node.s)
    ELSE \E i \in 1..Len(node.kids) : HasRefString(node.kids[i])

\* C4: after resolve returns Ok, no string anywhere in the tree starts with
\* `$` and none is shaped like an expression.
C4_NothingLeft == ResolvedOk => NoRefOrExprLeft(root)

C6_VariablesRemoved == ResolvedOk => ~HasKey(root, KeyVariables)

\* a document with an empty `variables` table has been returned without it
C6_Witness ==
    /\ ResolvedOk
    /\ HasKey(root0, KeyVariables)
    /\ GetKey(root0, KeyVariables).t = "tbl"
    /\ Len(GetKey(root0, KeyVariables).kids) = 0
    /\ Len(root0.keys) > 1
    /\ ~HasKey(root, KeyVariables)

\* every `$name` string of `before` is, in `after`, the value of name in the
\* table
RECURSIVE RefsReplaced(_, _, _)
RefsReplaced(before, after, table) ==
    IF before.t = "str"
    THEN IsRef(before.s) =>
           /\ Tail(before.s) \in DOMAIN table
           /\ after = VStr(table[Tail(before.s)])
    ELSE /\ Len(after.kids) = Len(before.kids)
         /\ \A i \in 1..Len(before.kids) :
              RefsReplaced(before.kids[i], after.kids[i], table)

\* C7: resolve returns Ok only with every `$name` string of the body
\* replaced by the resolved value of name; with a name that is not defined
\* it does not return Ok.
C7_BodyRefsReplaced == ResolvedOk => RefsReplaced(ExtractRoot(root0), root, vars)

\* `after` is `before` except for strings that start with `$` or are shaped
\* like an expression
RECURSIVE SameExceptRefs(_, _)
SameExceptRefs(before, after) ==
    /\ after.t = before.t
    /\ after.n = before.n
    /\ after.keys = before.keys
    /\ Len(after.kids) = Len(before.kids)
    /\ (IsRef(before.s) \/ is_expr(before.s) \/ after.s = before.s)
    /\ \A i \in 1..Len(before.kids) : SameExceptRefs(before.kids[i], after.kids[i])

\* the tree holds a number, a boolean and an array
RECURSIVE HasNodeOf(_, _)
HasNodeOf(node, t) ==
    node.t = t \/ \E i \in 1..Len(node.kids) : HasNodeOf(node.kids[i], t)

\* C8: when resolve returns Ok, the tree is the document without its
\* `variables` key, changed only at strings that start with `$` or are shaped
\* like an expression: other strings, numbers, booleans, keys, array lengths
\* and nesting are as given.
C8_OnlyRefsChange == ResolvedOk => SameExceptRefs(ExtractRoot(root0), root)

\* a document with numbers, a boolean, an array and a string equal to a
\* variable's name has been substituted
C8_Witness ==
    /\ ResolvedOk
    /\ pc = "done"
    /\ root # ExtractRoot(root0)
    /\ HasNodeOf(root, "num")
    /\ HasNodeOf(root, "bool")
    /\ HasNodeOf(root, "arr")
    /\ HasKey(root, KeyButton)
    /\ GetKey(root, KeyButton).kids[1].s = NameA

(***************************************************************************)
(* Properties of merge (checked under SpecMerge)                           *)
(***************************************************************************)

\* `out` is field by field `over` where over is set, else `self`
RightBiased(out, self, over) ==
    /\ DOMAIN out = DOMAIN self
    /\ \A f \in DOMAIN self :
         /\ out[f] = (IF over[f] # None THEN over[f] ELSE self[f])
         /\ out[f] = None <=> (self[f] = None /\ over[f] = None)

\* C9: for every kind and all layers, merge(A, B) holds for each field B's
\* value if B sets the field and A's value otherwise; a field is unset in the
\* result only if both leave it unset.
C9_RightBiased ==
    /\ (entry = "merge" /\ pc \in {"merged_left", "done"}) =>
          /\ RightBiased(mergedXA, layerX, layerA)
          /\ RightBiased(left, mergedXA, layerB)
    /\ (entry = "merge" /\ pc = "done") =>
          /\ RightBiased(mergedAB, layerA, layerB)
          /\ RightBiased(right, layerX, mergedAB)

\* two layers that set the same field have been merged, and the later one's
\* value is in the result
C9_Witness ==
    /\ entry = "merge"
    /\ pc = "merged_left"
    /\ \E f \in DOMAIN layerX :
         /\ layerX[f] = "x"
         /\ layerA[f] = "a"
         /\ mergedXA[f] = "a"

\* C10: merge is associative, merge(merge(X, A), B) = merge(X, merge(A, B)),
\* and three layers that set pairwise different fields yield a record that
\* holds all three values.
C10_Associative ==
    (entry = "merge" /\ pc = "done") =>
        /\ left = right
        /\ (/\ SetFields(layerX) \cap SetFields(layerA) = {}
            /\ SetFields(layerX) \cap SetFields(layerB) = {}
            /\ SetFields(layerA) \cap SetFields(layerB) = {})
           => \A f \in DOMAIN left :
                left[f] = (IF layerX[f] # None THEN layerX[f]
                           ELSE IF layerA[f] # None THEN layerA[f]
                           ELSE layerB[f])

\* three layers, each setting a field of its own, have been merged both ways
C10_Witness ==
    /\ entry = "merge"
    /\ pc = "done"
    /\ \E f, g, h \in DOMAIN left :
         /\ f # g /\ g # h /\ f # h
         /\ layerX[f] = "x" /\ layerA[g] = "a" /\ layerB[h] = "b"
         /\ left[f] = "x" /\ left[g] = "a" /\ left[h] = "b"
         /\ right = left

(***************************************************************************)
(* Properties of the cascade (checked under SpecStyle)                     *)
(***************************************************************************)

StyleDone == entry = "style" /\ pc = "done"

\* the indices of the layers of ls that are present and set f
Setting(ls, f) == { i \in 1..Len(ls) : ls[i].present /\ ls[i].layer[f] # None }

LastOf(ls, f, idx) ==
    IF idx = {} THEN None
    ELSE ls[CHOOSE i \in idx : \A j \in idx : j <= i].layer[f]

\* per field, the value of the last layer of ls that is present and sets it
LastWins(ls) ==
    [ f \in Fields(kind) |-> LastOf(ls, f, Setting(ls, f)) ]

\* a status's own sub-table; the active status has none
StatusLayer(st) == IF st = "active" THEN NoneLayer ELSE section.subs[st]

\* a status's combined sub-table; the active status has none
CombinedLayer(st) ==
    IF st = "active" THEN NoneLayer ELSE section.subs[CombinedOf(kind, st)]

StateLayer == section.subs[StateOf(kind)]

AllStatuses == {"active", "hovered", "disabled"}

\* C11: for a stateful kind and each status, the state=true appearance is
\* the default-filled record in which each field comes from the last of base,
\* state override, the status's override, the combined override that is
\* present and sets it; the state=false appearance is the same over base and
\* the status's override only.
C11_CascadeOrder ==
    (StyleDone /\ kind \in StatefulKinds) =>
        \A st \in AllStatuses :
          /\ style[VariantOf(kind, st, TRUE)] =
               into_appearance(kind,
                 LastWins(<< SomeLayer(section.base), StateLayer, StatusLayer(st),
                             CombinedLayer(st) >>))
          /\ style[VariantOf(kind, st, FALSE)] =
               into_appearance(kind,
                 LastWins(<< SomeLayer(section.base), StatusLayer(st) >>))

\* base, the state override, `hovered` and the combined override all set one
\* field, and the resolved style tells the two hovered variants apart
C11_Witness ==
    /\ StyleDone
    /\ kind \in StatefulKinds
    /\ \E f \in Fields(kind) :
         /\ section.base[f] # None
         /\ StateLayer.present /\ StateLayer.layer[f] # None
         /\ StatusLayer("hovered").present /\ StatusLayer("hovered").layer[f] # None
         /\ CombinedLayer("hovered").present /\ CombinedLayer("hovered").layer[f] # None
    /\ style[VariantOf(kind, "hovered", TRUE)] # style[VariantOf(kind, "hovered", FALSE)]

\* C12: a stateful section with a `hovered` override and neither the state
\* override nor the combined override resolves, and its (hovered, state=true)
\* appearance is that of base merged with `hovered` alone, the same as the
\* (hovered, state=false) appearance.
C12_HoveredFallback ==
    (/\ StyleDone
     /\ kind \in StatefulKinds
     /\ StatusLayer("hovered").present
     /\ ~StateLayer.present
     /\ ~CombinedLayer("hovered").present) =>
        /\ style[VariantOf(kind, "hovered", TRUE)] =
             into_appearance(kind,
               LastWins(<< SomeLayer(section.base), StatusLayer("hovered") >>))
        /\ style[VariantOf(kind, "hovered", TRUE)] = style[VariantOf(kind, "hovered", FALSE)]

\* a section with base and `hovered` only has been resolved; hovered differs
\* from active, checked or not
C12_Witness ==
    /\ StyleDone
    /\ kind \in StatefulKinds
    /\ \A n \in SubTables(kind) : section.subs[n].present <=> n = "hovered"
    /\ SetFields(section.base) # {}
    /\ SetFields(section.subs["hovered"].layer) # {}
    /\ style[VariantOf(kind, "hovered", TRUE)] = style[VariantOf(kind, "hovered", FALSE)]
    /\ style[VariantOf(kind, "hovered", TRUE)] # style[VariantOf(kind, "active", TRUE)]

\* C13: for a status-only kind the active appearance comes from base alone
\* and every other status's appearance from base and that status's own
\* override only; a status without an override has the active appearance.
C13_StatusOwnOverride ==
    (StyleDone /\ kind \in StatusKinds) =>
        /\ style["active"] = into_appearance(kind, LastWins(<< SomeLayer(section.base) >>))
        /\ \A st \in Statuses(kind) :
             /\ style[st] =
                  into_appearance(kind,
                    LastWins(<< SomeLayer(section.base), section.subs[st] >>))
             /\ ~section.subs[st].present => style[st] = style["active"]

\* one status overrides a field the base sets, another status has no
\* override: the first differs from active, the second does not
C13_Witness ==
    /\ StyleDone
    /\ kind \in StatusKinds
    /\ \E st, other \in Statuses(kind) :
         /\ st # other
         /\ section.subs[st].present
         /\ SetFields(section.subs[st].layer) \cap SetFields(section.base) # {}
         /\ ~section.subs[other].present
         /\ style[st] # style["active"]
         /\ style[other] = style["active"]

\* the fields an appearance type declares as Option
OptionalFields(k) ==
    CASE k = "button" -> {"background"}
      [] k = "container" -> {"background", "text_color"}
      [] k = "checkbox" -> {"text_color"}
      [] k = "radio" -> {"text_color"}
      [] k = "toggler" -> {"border_radius", "text_color"}
      [] OTHER -> {}

\* C14, as stated: after resolution no field of any appearance is None.
C14_NoFieldAbsent ==
    StyleDone =>
        \A v \in DOMAIN style : \A f \in DOMAIN style[v] : style[v][f] # None

\* C14, amended: after resolution every field of every appearance is
\* populated, from the cascade or from a default, except the fields the
\* appearance type declares optional; such a field is None unless a layer
\* of the cascade sets it, and never None when the base sets it.
C14_RequiredFieldsPresent ==
    StyleDone =>
        \A v \in DOMAIN style : \A f \in DOMAIN style[v] :
          /\ f \notin OptionalFields(kind) => style[v][f] # None
          /\ f \in OptionalFields(kind) =>
               /\ section.base[f] # None => style[v][f] # None
               /\ style[v][f] # None =>
                    \/ section.base[f] # None
                    \/ \E n \in SubTables(kind) :
                         section.subs[n].present /\ section.subs[n].layer[f] # None

\* an empty toggler section has been resolved: its background is the
\* default, its text color is absent
C14_Witness ==
    /\ StyleDone
    /\ kind = "toggler"
    /\ SetFields(section.base) = {}
    /\ \A n \in SubTables(kind) : ~section.subs[n].present
    /\ \A v \in DOMAIN style :
         /\ style[v].background = ColorTransparentName
         /\ style[v].foreground_border_width = "0.0"
         /\ style[v].text_color = None

\* the border width / border color field pairs of a kind
BorderPairs(k) ==
    CASE k = "toggler" -> { << "background_border_width", "background_border_color" >>,
                            << "foreground_border_width", "foreground_border_color" >> }
      [] k = "slider" -> { << "handle_border_width", "handle_border_color" >> }
      [] OTHER -> { << "border_width", "border_color" >> }

\* no layer of the section sets the field
NowhereSet(f) ==
    /\ section.base[f] = None
    /\ \A n \in SubTables(kind) :
         section.subs[n].present => section.subs[n].layer[f] = None

\* every appearance of the style has this border width and color
BorderIs(pair, width, color) ==
    \A v \in DOMAIN style : style[v][pair[1]] = width /\ style[v][pair[2]] = color

\* C15, as stated: for every kind with border width and border color
\* fields, when no layer sets them every appearance has border width 0 and
\* a transparent border color.
C15_BorderDefaultsEverywhere ==
    StyleDone =>
        \A pair \in BorderPairs(kind) :
          (NowhereSet(pair[1]) /\ NowhereSet(pair[2])) =>
             BorderIs(pair, "0.0", ColorTransparentName)

\* C15, amended: when no layer sets border width and border color, every
\* appearance of every kind but the radio has border width 0 and a
\* transparent border color, and every appearance of the radio has border
\* width 1 and a black border color, whatever override layers are present.
C15_BorderDefaultsButRadio ==
    StyleDone =>
        \A pair \in BorderPairs(kind) :
          (NowhereSet(pair[1]) /\ NowhereSet(pair[2])) =>
             IF kind = "radio" THEN BorderIs(pair, "1.0", ColorBlackName)
             ELSE BorderIs(pair, "0.0", ColorTransparentName)

\* a checkbox section whose overrides are present and set another field
\* has been resolved with the default border in all six appearances
C15_Witness ==
    /\ StyleDone
    /\ kind = "checkbox"
    /\ section.subs["hovered"].present
    /\ section.subs["checked"].present
    /\ section.subs["hovered"].layer["background"] # None
    /\ NowhereSet("border_width") /\ NowhereSet("border_color")
    /\ BorderIs(<< "border_width", "border_color" >>, "0.0", ColorTransparentName)

(***************************************************************************)
(* Properties of the theme's accessors (checked under SpecTheme)           *)
(***************************************************************************)

ThemeBuilt == entry = "try_from" /\ pc = "returned" /\ config.ok

\* the decoded document with every section but k's omitted
OnlySection(k) ==
    [raw EXCEPT !.sections = [ j \in Kinds |->
                                 IF j = k THEN raw.sections[k] ELSE NoneSection ]]

\* every appearance of a style is the one made of defaults alone
AllDefaults(k, st) ==
    \A v \in DOMAIN st : st[v] = into_appearance(k, LayerOver(k, "base", {}))

\* C16: for each of the eight kinds the accessor returns nothing exactly when
\* the document has no section of that kind; a section that is present and
\* empty gives a style whose appearances are all the all-defaults appearance;
\* and a kind's result is the one the document gives with every other
\* kind's section left out.
C16_SectionPresence ==
    ThemeBuilt =>
        \A k \in Kinds :
          /\ accessor(config.theme, k).present <=> raw.sections[k].present
          /\ raw.sections[k] = SomeSection(EmptySection(k)) =>
               /\ DOMAIN accessor(config.theme, k).style # {}
               /\ AllDefaults(k, accessor(config.theme, k).style)
          /\ accessor(config.theme, k) = accessor(try_from(OnlySection(k)).theme, k)

\* a theme was built from a document that omits one kind, has an empty
\* section of a second and a section with fields of a third, and the
\* accessors tell the three apart
C16_Witness ==
    /\ ThemeBuilt
    /\ \E a, b, c \in Kinds :
         /\ ~raw.sections[a].present
         /\ raw.sections[b] = SomeSection(EmptySection(b))
         /\ raw.sections[c] = SomeSection(SampleSection(c))
         /\ ~accessor(config.theme, a).present
         /\ accessor(config.theme, b).present
         /\ accessor(config.theme, c).present
         /\ ~AllDefaults(c, accessor(config.theme, c).style)

(***************************************************************************)
(* Properties of from_str (checked under SpecFromStr)                      *)
(***************************************************************************)

Returned == entry = "from_str" /\ pc = "returned"

IsPrefix(p, q) == Len(p) <= Len(q) /\ p = SubSeq(q, 1, Len(p))

\* from_str returned an error, no theme, after the steps up to the n-th
FailedAt(n, err) ==
    /\ steps = SubSeq(StepOrder, 1, n)
    /\ ~config.ok
    /\ config.err = err
    /\ config.theme = NoConfig.theme

\* C17: from_str begins its steps in the order parse, variable resolution,
\* decoding, cascade resolution; when it has returned, a step that failed is
\* the last step begun and the result is an error without a theme, and
\* only when all four steps ran without failure the result is the theme
\* built from the decoded document.
C17_StepsInOrderFailureTerminal ==
    /\ entry = "from_str" => IsPrefix(steps, StepOrder)
    /\ Returned =>
         IF ~text.wellformed THEN FailedAt(1, "Parse")
         ELSE IF result.kind # "ok" THEN FailedAt(2, "InvalidColor")
         ELSE IF ~deserialize(root).ok THEN FailedAt(3, "Parse")
         ELSE /\ steps = StepOrder
              /\ config = try_from(deserialize(root).raw)

\* from_str returned an error after variable resolution failed on a document
\* that would otherwise decode
C17_Witness ==
    /\ Returned
    /\ text.wellformed
    /\ result.kind \in {"undefined", "cyclic"}
    /\ steps = <<"parse", "resolve">>
    /\ ~config.ok
    /\ deserialize(RemoveKey(root0, KeyVariables)).ok

(***************************************************************************)
(* Properties of the color parser and of Display (checked under SpecColor) *)
(***************************************************************************)

ColorParsed == entry = "parse_color" /\ pc \in {"parsed", "shown"}

IsNamedColor(s) == ToAsciiLowercase(s) \in {NameBlack, NameWhite, NameTransparent}

\* `#` followed by exactly 3, 6 or 8 hexadecimal digits
IsHashHex(s) ==
    /\ Len(s) \in {4, 7, 9}
    /\ s[1] = "#"
    /\ \A i \in 2..Len(s) : s[i] \in HexChars

\* C18: the parser rejects every token that is neither a named color nor `#`
\* followed by exactly 3, 6 or 8 hexadecimal digits.
C18_OnlyNamedOrHashHexParses ==
    (ColorParsed /\ parsed.ok) => (IsNamedColor(token) \/ IsHashHex(token))

CharToAsciiUppercase(c) ==
    IF c \in SeqRange(LowerSeq) THEN UpperSeq[IndexIn(LowerSeq, c)] ELSE c

ToAsciiUppercase(s) == [ i \in 1..Len(s) |-> CharToAsciiUppercase(s[i]) ]

\* the alpha digits of an 8-digit token spell the byte 255
AlphaIsFF(s) == ToAsciiUppercase(SubSeq(s, 8, 9)) = <<"F","F">>

\* the canonical text the claim gives for a valid hex token
Canonical(s) ==
    IF Len(s) = 4
    THEN ToAsciiUppercase(<< "#", s[2], s[2], s[3], s[3], s[4], s[4] >>)
    ELSE IF Len(s) = 9 /\ ~AlphaIsFF(s) THEN ToAsciiUppercase(s)
    ELSE ToAsciiUppercase(SubSeq(s, 1, 7))

\* C19: the Display of the color parsed from a valid 6- or 8-digit token is
\* the token in upper case, in the 6-digit form when the alpha is 1.0 and in
\* the 8-digit form otherwise; that of a 3-digit token is `#` and each of its
\* digits twice, in upper case.
C19_DisplayRoundTrip ==
    (entry = "parse_color" /\ pc = "shown" /\ IsHashHex(token)) =>
        shown = Canonical(token)

\* an 8-digit token in lower case with an alpha below 255 was parsed and
\* shown in upper case with its alpha
C19_Witness ==
    /\ entry = "parse_color"
    /\ pc = "shown"
    /\ IsHashHex(token)
    /\ Len(token) = 9
    /\ token # ToAsciiUppercase(token)
    /\ ~AlphaIsFF(token)
    /\ Len(shown) = 9
    /\ shown = ToAsciiUppercase(token)

(***************************************************************************)
(* Properties of apply (checked under SpecExpr)                            *)
(***************************************************************************)

Applied == entry = "apply" /\ pc = "done"

\* the arity the claim gives for each supported operation
ClaimedArity(name) ==
    IF name \in {FnGreyscale, FnGrayscale} THEN 1
    ELSE IF name = FnMix THEN 3
    ELSE 2

PercentDone == entry = "parse_percent" /\ pc = "done"

PercentArg == request.args[1]

\* the text before a trailing `%`, without the blanks around it
BeforePercent(s) == Trim(SubSeq(s, 1, Len(s) - 1))

IsDigits(s) == Len(s) > 0 /\ \A i \in 1..Len(s) : s[i] \in SeqRange(DigitSeq)

\* an integer: digits, with or without a sign
IsInteger(s) ==
    IF Len(s) > 0 /\ s[1] \in {"+", "-"} THEN IsDigits(Tail(s)) ELSE IsDigits(s)

IntegerValue(s) ==
    IF s[1] = "-" THEN 0 - DigitsValue(Tail(s), 10, 0)
    ELSE IF s[1] = "+" THEN DigitsValue(Tail(s), 10, 0)
    ELSE DigitsValue(s, 10, 0)

\* C21: a percentage argument that is accepted ends with `%` and the text
\* before it is an integer from 0 to 100; a number from 0 to 100 followed by
\* `%` is accepted; so every value outside the range and every argument
\* without the suffix fails, and none is clamped or wrapped.
C21_PercentRange ==
    PercentDone =>
        /\ answer.ok =>
             /\ EndsWith(PercentArg, <<"%">>)
             /\ IsInteger(BeforePercent(PercentArg))
             /\ IntegerValue(BeforePercent(PercentArg)) \in 0..100
        /\ (/\ EndsWith(PercentArg, <<"%">>)
            /\ IsDigits(BeforePercent(PercentArg))
            /\ IntegerValue(BeforePercent(PercentArg)) \in 0..100) => answer.ok

\* 256% was handed in and refused, not wrapped to 0%
C21_Witness ==
    /\ PercentDone
    /\ PercentArg = <<"2","5","6","%">>
    /\ ~answer.ok

(***************************************************************************)
(* Properties of resolve_color (checked under SpecExpr)                    *)
(***************************************************************************)

\* the call reached resolve_color with a `$name` as its first color argument
ColorRefRead ==
    /\ Applied
    /\ request.name \in KnownFns
    /\ Len(request.args) = ClaimedArity(request.name)
    /\ StripPrefix(request.args[1], "$").some

FirstRefName == StripPrefix(request.args[1], "$").rest

PassOf(tb) ==
    [ k \in DOMAIN tb |->
        IF IsRef(tb[k]) /\ Tail(tb[k]) \in DOMAIN tb THEN tb[Tail(tb[k])] ELSE tb[k] ]

RECURSIVE Passes(_, _)
Passes(tb, n) == IF n = 0 THEN tb ELSE PassOf(Passes(tb, n - 1))

\* the table after phase 1: every chain followed to its end
Resolved(tb) == Passes(tb, Cardinality(DOMAIN tb))

\* the expression of variable k succeeds against the resolved table
ExprSucceeds(tb, k) == \E hex \in FarverHex : expr_evaluate(tb[k], tb, hex).ok

\* the final value of k: its resolved value, or the color its expression
\* computes from the resolved table
FinalValueOk(tb, k, v) ==
    IF is_expr(tb[k])
    THEN \E hex \in FarverHex : v = expr_evaluate(tb[k], tb, hex).val
    ELSE v = tb[k]

NoCycleAllDefined == entry = "evaluate" /\ ~HasCycle(vars0) /\ AllDefined(vars0)

\* C23: on a table without a cycle the visiting order does not matter: after
\* each scan the table is the one obtained by applying the pass to every
\* value at once, phase 2 starts from the table with every chain followed to
\* its end, it succeeds exactly when every expression of that table
\* succeeds, and the final value of every variable is its resolved value or
\* the color its expression computes from that table.
C23_OrderIndependent ==
    NoCycleAllDefined =>
        /\ (pc \in {"loop", "check"} \/ (pc = "scan" /\ todo = {}))
             => vars = Passes(vars0, scans)
        /\ pc = "phase2" => snapshot = Resolved(vars0)
        /\ pc = "done" =>
             /\ result.kind \in {"ok", "exprVariable"}
             /\ result.kind = "ok" <=>
                  \A k \in DOMAIN vars0 :
                     is_expr(Resolved(vars0)[k]) => ExprSucceeds(Resolved(vars0), k)
             /\ result.kind = "ok" =>
                  \A k \in DOMAIN vars0 : FinalValueOk(Resolved(vars0), k, vars[k])

\* a chain of two references ending in a color was resolved in three scans
\* and every variable holds the color
C23_Witness ==
    /\ NoCycleAllDefined
    /\ pc = "done"
    /\ result.kind = "ok"
    /\ scans = 3
    /\ \E k \in DOMAIN vars0 :
         /\ IsRef(vars0[k])
         /\ IsRef(vars0[Tail(vars0[k])])
    /\ \A k \in DOMAIN vars : vars[k] = LitColor

(***************************************************************************)
(* The number of scans of phase 1 (checked under SpecEval)                 *)
(***************************************************************************)

\* the pass loop has been left without an error
LoopLeft == entry = "evaluate" /\ pc \in {"check", "phase2"}

\* C24, as stated: the loop performs at most |vars| scans; it is left at the
\* first scan that changes no value, and otherwise after |vars| scans.
C24_AtMostVarsScans ==
    entry = "evaluate" =>
        /\ scans <= Cardinality(DOMAIN vars0)
        /\ (pc = "loop" /\ scans > 0) => changed
        /\ pc = "check" => (~changed \/ scans = Cardinality(DOMAIN vars0))

\* C24, amended: the loop performs at most |vars| + 1 scans; it is left at
\* the first scan that changes no value, and otherwise after |vars| + 1
\* scans.
C24_AtMostVarsPlusOneScans ==
    entry = "evaluate" =>
        /\ scans <= Cardinality(DOMAIN vars0) + 1
        /\ (pc = "loop" /\ scans > 0) => changed
        /\ pc = "check" => (~changed \/ scans = Cardinality(DOMAIN vars0) + 1)

\* the ring a -> b -> c -> a changed in every scan and the loop was left
\* after the fourth
C24_Witness ==
    /\ LoopLeft
    /\ vars0 = ThreeCycle
    /\ changed
    /\ scans = 4

(***************************************************************************)
(* Which strings reach the expression evaluator (checked under Spec)       *)
(***************************************************************************)

IsIdentChar(c) == IsAsciiAlphabetic(c) \/ IsDigit(c, 10) \/ c = "_"

\* an identifier immediately followed by `(`
LooksLikeCall(s) ==
    /\ FirstIndex(s, "(") > 1
    /\ IsAsciiAlphabetic(s[1])
    /\ \A i \in 1..(FirstIndex(s, "(") - 1) : IsIdentChar(s[i])

\* C25: a string is handed to the expression evaluator only if it starts
\* with an identifier immediately followed by `(`: an error of the evaluator
\* is reported only for such a variable value or such a string of the body,
\* so a string with a `(` after other text is left as it is.
C25_OnlyCallsEvaluated ==
    (entry = "resolve" /\ pc = "done") =>
        /\ result.kind = "exprBody" => LooksLikeCall(result.from)
        /\ result.kind = "exprVariable" => LooksLikeCall(snapshot[result.from])

(***************************************************************************)
(* Undefined references and cycles together (checked under SpecEval)       *)
(***************************************************************************)

EvaluateReturned == entry = "evaluate" /\ pc = "done"

\* C26: a reference to a name that is not a key wins over a cycle: evaluate
\* then returns the undefined-variable error from its first scan, whatever
\* the order and whether or not the table has a cycle; the cyclic error is
\* returned only for a table with a cycle whose references are all defined.
C26_UndefinedBeforeCyclic ==
    EvaluateReturned =>
        /\ HasUndefined(vars0) => (result.kind = "undefined" /\ scans = 1)
        /\ result.kind = "cyclic" => (AllDefined(vars0) /\ HasCycle(vars0))

\* a table with a cycle and a reference to a missing name has failed in the
\* first scan with the undefined-variable error
C26_Witness ==
    /\ EvaluateReturned
    /\ HasCycle(vars0)
    /\ HasUndefined(vars0)
    /\ result.kind = "undefined"
    /\ scans = 1

(***************************************************************************)
(* The names of the cyclic error (checked under SpecEval)                  *)
(***************************************************************************)

\* following the references from k ends at a value that is not a reference
RECURSIVE ChainEnds(_, _, _)
ChainEnds(tb, k, fuel) ==
    \/ ~IsRef(tb[k])
    \/ /\ fuel > 0
       /\ Tail(tb[k]) \in DOMAIN tb
       /\ ChainEnds(tb, Tail(tb[k]), fuel - 1)

EndsInLiteral(tb, k) == ChainEnds(tb, k, Cardinality(DOMAIN tb))

\* the value at the end of the chain of k
RECURSIVE ChainEnd(_, _)
ChainEnd(tb, k) == IF IsRef(tb[k]) THEN ChainEnd(tb, Tail(tb[k])) ELSE tb[k]

CyclicReturned == entry = "evaluate" /\ pc = "done" /\ result.kind = "cyclic"

\* C27: the cyclic error lists exactly the variables whose reference chain
\* never reaches a value that is not a reference; a variable whose chain
\* ends in a literal holds that literal when the loop stops and is not
\* listed.
C27_CyclicNamesExact ==
    CyclicReturned =>
        /\ result.names = { k \in DOMAIN vars0 : ~EndsInLiteral(vars0, k) }
        /\ \A k \in DOMAIN vars0 :
             EndsInLiteral(vars0, k) => vars[k] = ChainEnd(vars0, k)

\* a table with a cycle and, beside it, a reference to a literal has failed:
\* the variables of the cycle are listed, the reference holds the literal
\* and is not listed
C27_Witness ==
    /\ CyclicReturned
    /\ \E k \in DOMAIN vars0 :
         /\ IsRef(vars0[k])
         /\ k \notin result.names
         /\ vars[k] = LitColor
    /\ \E k \in result.names : OnCycle(vars0, k)

(***************************************************************************)
(* What a pass writes (checked under SpecEval)                             *)
(***************************************************************************)

InPhase1 == entry = "evaluate" /\ pc \in {"loop", "scan"}

\* C28: every step of phase 1 keeps the set of names; the head of a pass
\* clones the table; a value that changes was `$j` for another variable j
\* and becomes the value j held in that clone; so a value that does not
\* start with `$` is never modified.
C28_PassWritesFromSnapshot ==
    [][ InPhase1 =>
          /\ DOMAIN vars' = DOMAIN vars
          /\ (pc = "loop" /\ pc' = "scan") => (snapshot' = vars /\ vars' = vars)
          /\ \A k \in DOMAIN vars :
               vars'[k] # vars[k] =>
                 /\ pc = "scan"
                 /\ IsRef(vars[k])
                 /\ \E j \in DOMAIN snapshot \ {k} :
                      /\ vars[k] = Ref(j)
                      /\ vars'[k] = snapshot[j] ]_allVars

\* in the middle of a scan a reference has been replaced by the value its
\* target held at the head of the pass, while the target, itself a
\* reference, has been replaced too, and a literal was visited and kept
C28_Witness ==
    /\ entry = "evaluate"
    /\ pc = "scan"
    /\ \E k \in DOMAIN vars :
         /\ IsRef(snapshot[k])
         /\ Tail(snapshot[k]) \in DOMAIN snapshot
         /\ IsRef(snapshot[Tail(snapshot[k])])
         /\ vars[k] = snapshot[Tail(snapshot[k])]
         /\ vars[Tail(snapshot[k])] # snapshot[Tail(snapshot[k])]
    /\ \E j \in DOMAIN vars \ todo : ~IsRef(snapshot[j]) /\ vars[j] = snapshot[j]

(***************************************************************************)
(* Expressions that take expressions (checked under SpecEval)              *)
(***************************************************************************)

\* the arguments of the call in s
CallArgs(s) == TrimAll(Split(parse_call(Trim(s)).args, ","))

\* the expression of k has an argument `$n` and the value of n is an
\* expression
TakesExpr(tb, k) ==
    /\ is_expr(tb[k])
    /\ parse_call(Trim(tb[k])).ok
    /\ \E i \in 1..Len(CallArgs(tb[k])) :
         /\ IsRef(CallArgs(tb[k])[i])
         /\ Tail(CallArgs(tb[k])[i]) \in DOMAIN tb
         /\ is_expr(tb[Tail(CallArgs(tb[k])[i])])

ChainOwners(tb) == { k \in DOMAIN tb : TakesExpr(tb, k) }

\* the variables whose expression fails against the table
FailingExprs(tb) == { k \in DOMAIN tb : is_expr(tb[k]) /\ ~ExprSucceeds(tb, k) }

C30_ParserTotal == entry = "parse_color" => pc # "aborted"

====
